---- MODULE Spec2Model ----
(***************************************************************************)
(* Model of src/validation_engine.py: BeerValidationEngine (normaliser,    *)
(* pub matcher, beer matcher, tier decision) and SubmissionProcessor       *)
(* (audit insert, tier-specific action) over a relational store.           *)
(*                                                                         *)
(* Reading of the source.  Lines 177-193 of validation_engine.py are       *)
(* dedented to class level, so the file as written does not compile        *)
(* ('return' outside function).  They are read here as the tail of         *)
(* _validate_beer, which is what their content and position say.           *)
(*                                                                         *)
(* Strings are sequences of one-character strings so that strip, lower,    *)
(* upper and difflib's ratio are computed, not assumed.                    *)
(***************************************************************************)
EXTENDS Integers, Sequences, FiniteSets, TLC

(***************************************************************************)
(* Bounds of the model                                                     *)
(***************************************************************************)
\* number of process_submission calls one behaviour starts
MaxRequests == 2

(***************************************************************************)
(* Strings                                                                 *)
(***************************************************************************)
UpperLetters == <<"A","B","C","D","E","F","G","H","I","J","K","L","M",
                  "N","O","P","Q","R","S","T","U","V","W","X","Y","Z">>

LowerLetters == <<"a","b","c","d","e","f","g","h","i","j","k","l","m",
                  "n","o","p","q","r","s","t","u","v","w","x","y","z">>

IndexIn(c, letters) ==
    IF \E i \in DOMAIN letters : letters[i] = c
    THEN CHOOSE i \in DOMAIN letters : letters[i] = c
    ELSE 0

LowerChar(c) == IF IndexIn(c, UpperLetters) = 0 THEN c
                ELSE LowerLetters[IndexIn(c, UpperLetters)]

UpperChar(c) == IF IndexIn(c, LowerLetters) = 0 THEN c
                ELSE UpperLetters[IndexIn(c, LowerLetters)]

\* str.lower()
Lower(s) == [i \in DOMAIN s |-> LowerChar(s[i])]

\* str.upper()
Upper(s) == [i \in DOMAIN s |-> UpperChar(s[i])]

\* str.strip(): drops the blanks at both ends
Strip(s) ==
    IF \A i \in DOMAIN s : s[i] = " " THEN <<>>
    ELSE LET first == CHOOSE i \in DOMAIN s :
                          s[i] # " " /\ \A j \in 1..(i-1) : s[j] = " "
             last  == CHOOSE i \in DOMAIN s :
                          s[i] # " " /\ \A j \in (i+1)..Len(s) : s[j] = " "
         IN SubSeq(s, first, last)

\* s[:n]
Prefix(s, n) == SubSeq(s, 1, IF Len(s) < n THEN Len(s) ELSE n)

\* s begins with p
StartsWith(s, p) == Len(p) <= Len(s) /\ SubSeq(s, 1, Len(p)) = p

RECURSIVE Like(_, _)
\* SQL: s LIKE pattern.  % matches any run of characters, _ any one
\* character, a backslash takes the next character literally
Like(s, pattern) ==
    IF pattern = <<>> THEN s = <<>>
    ELSE IF Head(pattern) = "%"
    THEN \E k \in 0..Len(s) : Like(SubSeq(s, k + 1, Len(s)), Tail(pattern))
    ELSE IF s = <<>> THEN FALSE
    ELSE IF Head(pattern) = "\\" /\ Len(pattern) > 1
    THEN pattern[2] = Head(s) /\ Like(Tail(s), Tail(Tail(pattern)))
    ELSE /\ Head(pattern) = "_" \/ Head(pattern) = Head(s)
         /\ Like(Tail(s), Tail(pattern))

(***************************************************************************)
(* difflib.SequenceMatcher(None, a, b).ratio()                             *)
(***************************************************************************)
RECURSIVE RunLength(_, _, _, _)
\* the length of the common run of a from i and b from j
RunLength(a, b, i, j) ==
    IF i > Len(a) \/ j > Len(b) THEN 0
    ELSE IF a[i] # b[j] THEN 0
    ELSE 1 + RunLength(a, b, i + 1, j + 1)

\* the maximal matching blocks <<i, j, k>>: a[i..i+k-1] = b[j..j+k-1]
MatchBlocks(a, b) ==
    {<<i, j, RunLength(a, b, i, j)>> : i \in 1..Len(a), j \in 1..Len(b)}

\* find_longest_match: of the longest blocks the one earliest in a, and of
\* those the one earliest in b
LongestOf(blocks) ==
    CHOOSE m \in blocks :
        \A o \in blocks :
            \/ m[3] > o[3]
            \/ m[3] = o[3] /\ m[1] < o[1]
            \/ m[3] = o[3] /\ m[1] = o[1] /\ m[2] <= o[2]

RECURSIVE MatchedChars(_, _)
\* the sum of the sizes of get_matching_blocks(): the longest match, then
\* the same to its left and to its right.  (The block is bound through a
\* singleton set so that it is computed once.)
MatchedChars(a, b) ==
    IF a = <<>> \/ b = <<>> THEN 0
    ELSE CHOOSE n \in
           {IF m[3] = 0 THEN 0
            ELSE m[3] + MatchedChars(SubSeq(a, 1, m[1] - 1), SubSeq(b, 1, m[2] - 1))
                      + MatchedChars(SubSeq(a, m[1] + m[3], Len(a)),
                                     SubSeq(b, m[2] + m[3], Len(b))) :
               m \in {LongestOf(blocks) : blocks \in {MatchBlocks(a, b)}}} : TRUE

\* ratio() as the fraction <<2*M, T>>; 1.0 when both strings are empty
Ratio(a, b) ==
    IF Len(a) + Len(b) = 0 THEN <<1, 1>>
    ELSE <<2 * MatchedChars(a, b), Len(a) + Len(b)>>

(***************************************************************************)
(* The store: the pubs and beers tables the matchers read                  *)
(***************************************************************************)
S_Crown == <<"C","r","o","w","n">>
S_Bell == <<"B","e","l","l">>
S_S12AB == <<"S","1"," ","2","A","B">>
S_M41XY == <<"M","4"," ","1","X","Y">>
S_Thorn == <<"T","h","o","r","n">>
S_Bru == <<"B","r","u">>
S_Jai == <<"J","a","i">>
S_Ipa == <<"I","p","a">>

\* rows of table pubs (pub_id, name, address, postcode), in scan order
Pubs ==
    << [pub_id |-> 1, name |-> S_Crown, address |-> <<"1">>, postcode |-> S_S12AB],
       [pub_id |-> 2, name |-> S_Bell,  address |-> <<"2">>, postcode |-> S_S12AB],
       [pub_id |-> 3, name |-> S_Crown, address |-> <<"3">>, postcode |-> S_M41XY] >>

\* rows of table beers (beer_id, brewery, name, style, abv), in scan order
Beers ==
    << [beer_id |-> 1, brewery |-> S_Thorn, name |-> S_Jai, style |-> <<"i">>, abv |-> 59],
       [beer_id |-> 2, brewery |-> S_Thorn, name |-> S_Ipa, style |-> <<"i">>, abv |-> 45],
       [beer_id |-> 3, brewery |-> S_Bru,   name |-> S_Jai, style |-> <<"l">>, abv |-> 40] >>

PubIds == {Pubs[i].pub_id : i \in DOMAIN Pubs}

BeerIds == {Beers[i].beer_id : i \in DOMAIN Beers}

\* cursor.fetchone() on a SELECT without ORDER BY: any row of the result
FetchOne(rows) == {rows[i] : i \in DOMAIN rows}

(***************************************************************************)
(* A field of the submission mapping: absent, null (None) or a string      *)
(***************************************************************************)
FAbsent == [k |-> "absent", v |-> <<>>]

FNull == [k |-> "null", v |-> <<>>]

FStr(s) == [k |-> "str", v |-> s]

\* submission.get(key, ''): the default only replaces an absent key
GetOrEmpty(f) == IF f.k = "absent" THEN FStr(<<>>) ELSE f

\* a str method called on None raises AttributeError
IsStr(f) == f.k = "str"

(***************************************************************************)
(* Entity normaliser                                                       *)
(***************************************************************************)
\* _extract_pub_data: [raised, value]
ExtractPubData(submission) ==
    LET name == GetOrEmpty(submission.pub_name)
        address == GetOrEmpty(submission.address)
        postcode == GetOrEmpty(submission.postcode)
    IN IF IsStr(name) /\ IsStr(address) /\ IsStr(postcode)
       THEN [raised |-> FALSE,
             value |-> [pub_id |-> submission.pub_id,
                        name |-> Strip(name.v),
                        address |-> Strip(address.v),
                        postcode |-> Upper(Strip(postcode.v))]]
       ELSE [raised |-> TRUE,
             value |-> [pub_id |-> 0, name |-> <<>>, address |-> <<>>, postcode |-> <<>>]]

\* _extract_beer_data: [raised, value]
ExtractBeerData(submission) ==
    LET brewery == GetOrEmpty(submission.brewery)
        beer_name == GetOrEmpty(submission.beer_name)
        style == GetOrEmpty(submission.beer_style)
        format == GetOrEmpty(submission.beer_format)
    IN IF IsStr(brewery) /\ IsStr(beer_name) /\ IsStr(style) /\ IsStr(format)
       THEN [raised |-> FALSE,
             value |-> [brewery |-> Strip(brewery.v),
                        beer_name |-> Strip(beer_name.v),
                        style |-> Strip(style.v),
                        abv |-> submission.beer_abv,
                        format |-> Lower(Strip(format.v))]]
       ELSE [raised |-> TRUE,
             value |-> [brewery |-> <<>>, beer_name |-> <<>>, style |-> <<>>,
                        abv |-> 0, format |-> <<>>]]

(***************************************************************************)
(* Pub matcher                                                             *)
(***************************************************************************)
\* LIMIT 20 of the candidate query
CandidateCap == 20

\* postcode[:3]
AreaLen == 3

\* similar_matches[:3]
TopMatches == 3

NoPubId == 0

PubResult(status, pub_id, confidence, matched_name, matches) ==
    [status |-> status, pub_id |-> pub_id, confidence |-> confidence,
     matched_name |-> matched_name, matches |-> matches]

\* (name_similarity * 0.7) + (postcode_similarity * 0.3), as a fraction
\* mutant: the name similarity alone
ConfidenceNameOnly(ns, ps) == ns

Confidence(ns, ps) == <<7 * ns[1] * ps[2] + 3 * ps[1] * ns[2], 10 * ns[2] * ps[2]>>

\* mutant: confidence >= 0.8
AtLeastThreshold(c) == 10 * c[1] >= 8 * c[2]

\* confidence > 0.8
AboveThreshold(c) == 10 * c[1] > 8 * c[2]

\* x > y on fractions
FracGreater(x, y) == x[1] * y[2] > y[1] * x[2]

\* the dictionary appended for one candidate row
SimilarMatch(pub_data, candidate) ==
    CHOOSE m \in
        {[pub_id |-> candidate.pub_id, name |-> candidate.name,
          address |-> candidate.address, postcode |-> candidate.postcode,
          confidence |-> Confidence(ns, ps),
          name_similarity |-> ns, postcode_similarity |-> ps] :
            ns \in {Ratio(Lower(pub_data.name), Lower(candidate.name))},
            ps \in {Ratio(pub_data.postcode, candidate.postcode)}} : TRUE

\* one step of the stable descending sort: m goes behind every entry that
\* is not smaller
InsertMatch(sorted, m) ==
    LET before == SelectSeq(sorted, LAMBDA x : ~FracGreater(m.confidence, x.confidence))
        after == SelectSeq(sorted, LAMBDA x : FracGreater(m.confidence, x.confidence))
    IN before \o <<m>> \o after

RECURSIVE SortMatchesAscending(_)
\* mutant: the sort without reverse=True
SortMatchesAscending(ms) ==
    IF ms = <<>> THEN <<>>
    ELSE LET sorted == SortMatchesAscending(SubSeq(ms, 1, Len(ms) - 1))
             m == ms[Len(ms)]
         IN SelectSeq(sorted, LAMBDA x : ~FracGreater(x.confidence, m.confidence))
            \o <<m>> \o
            SelectSeq(sorted, LAMBDA x : FracGreater(x.confidence, m.confidence))

RECURSIVE SortMatches(_)
\* similar_matches.sort(key=confidence, reverse=True)
SortMatches(ms) ==
    IF ms = <<>> THEN <<>>
    ELSE InsertMatch(SortMatches(SubSeq(ms, 1, Len(ms) - 1)), ms[Len(ms)])

\* s[:n] of a list
Take(s, n) == SubSeq(s, 1, IF Len(s) < n THEN Len(s) ELSE n)

\* the sets of k elements of S
RECURSIVE KSubsets(_, _)
KSubsets(S, k) ==
    IF k = 0 THEN {{}}
    ELSE UNION {{({x} \cup T) : T \in KSubsets({y \in S : y > x}, k - 1)} : x \in S}

\* rows without the rows at the dropped positions
RECURSIVE Without(_, _)
Without(rows, dropped) ==
    IF rows = <<>> THEN <<>>
    ELSE IF Len(rows) \in dropped
    THEN Without(SubSeq(rows, 1, Len(rows) - 1), dropped)
    ELSE Append(Without(SubSeq(rows, 1, Len(rows) - 1), dropped), rows[Len(rows)])

\* SELECT ... LIMIT n without ORDER BY: which n of the matching rows come
\* back is not specified; every choice of n rows is a possible result
Limit(rows, n) ==
    IF Len(rows) <= n THEN {rows}
    ELSE {Without(rows, dropped) : dropped \in KSubsets(DOMAIN rows, Len(rows) - n)}

\* the candidate rows fetchall() can return: postcode LIKE '<area>%' LIMIT 20
Candidates(pubs, pub_data) ==
    Limit(SelectSeq(pubs, LAMBDA r :
                       Like(r.postcode, Prefix(pub_data.postcode, AreaLen) \o <<"%">>)),
          CandidateCap)

\* the matches appended in the loop over the candidates
SimilarMatches(pub_data, candidates) ==
    SelectSeq([i \in DOMAIN candidates |-> SimilarMatch(pub_data, candidates[i])],
              LAMBDA m : AboveThreshold(m.confidence))

\* the list _find_similar_pubs returns for the candidates it fetched
RankMatches(pub_data, candidates) ==
    Take(SortMatches(SimilarMatches(pub_data, candidates)), TopMatches)

\* _find_similar_pubs: the lists it can return
FindSimilarPubs(pubs, pub_data) ==
    {RankMatches(pub_data, candidates) : candidates \in Candidates(pubs, pub_data)}

\* the rows of SELECT ... WHERE pub_id = %s
PubsById(pubs, pub_id) == SelectSeq(pubs, LAMBDA r : r.pub_id = pub_id)

\* mutant: the names are compared as they are written
PubsByNamePostcodeCaseSensitive(pubs, name, postcode) ==
    SelectSeq(pubs, LAMBDA r : r.name = name /\ r.postcode = postcode)

\* the rows of SELECT ... WHERE LOWER(name) = LOWER(%s) AND postcode = %s
PubsByNamePostcode(pubs, name, postcode) ==
    SelectSeq(pubs, LAMBDA r : Lower(r.name) = Lower(name) /\ r.postcode = postcode)

ExistingPub(row) == PubResult("existing", row.pub_id, <<1, 1>>, row.name, <<>>)

\* the result built from the list _find_similar_pubs returned
SimilarOrNew(similar_matches) ==
    IF similar_matches # <<>>
    THEN PubResult("similar", NoPubId, similar_matches[1].confidence, <<>>, similar_matches)
    ELSE PubResult("new", NoPubId, <<0, 1>>, <<>>, <<>>)

\* mutant: the name and postcode lookup runs before the lookup by pub_id
ValidatePubNameFirst(pubs, pub_data) ==
    IF /\ pub_data.name # <<>>
       /\ pub_data.postcode # <<>>
       /\ PubsByNamePostcode(pubs, pub_data.name, pub_data.postcode) # <<>>
    THEN {ExistingPub(r) :
             r \in FetchOne(PubsByNamePostcode(pubs, pub_data.name, pub_data.postcode))}
    ELSE IF pub_data.pub_id # NoPubId /\ PubsById(pubs, pub_data.pub_id) # <<>>
    THEN {ExistingPub(r) : r \in FetchOne(PubsById(pubs, pub_data.pub_id))}
    ELSE {SimilarOrNew(similar_matches) :
             similar_matches \in FindSimilarPubs(pubs, pub_data)}

\* _validate_pub over the rows of table pubs the cursor reads: the results
\* it can return (fetchone may return any matching row)
ValidatePubIn(pubs, pub_data) ==
    IF pub_data.pub_id # NoPubId /\ PubsById(pubs, pub_data.pub_id) # <<>>
    THEN {ExistingPub(r) : r \in FetchOne(PubsById(pubs, pub_data.pub_id))}
    ELSE IF /\ pub_data.name # <<>>
            /\ pub_data.postcode # <<>>
            /\ PubsByNamePostcode(pubs, pub_data.name, pub_data.postcode) # <<>>
    THEN {ExistingPub(r) :
             r \in FetchOne(PubsByNamePostcode(pubs, pub_data.name, pub_data.postcode))}
    ELSE {SimilarOrNew(similar_matches) :
             similar_matches \in FindSimilarPubs(pubs, pub_data)}

\* _validate_pub on the store of the model
ValidatePub(pub_data) == ValidatePubIn(Pubs, pub_data)

(***************************************************************************)
(* Beer matcher                                                            *)
(***************************************************************************)
NoBeerId == 0

NoBeerRow == [beer_id |-> NoBeerId, brewery |-> <<>>, name |-> <<>>, style |-> <<>>, abv |-> 0]

BeerResult(status, beer_id, confidence, matched_data, matched_brewery) ==
    [status |-> status, beer_id |-> beer_id, confidence |-> confidence,
     matched_data |-> matched_data, matched_brewery |-> matched_brewery]

\* the %s placeholders of the first query of _validate_beer (lines 156-157)
ExactQueryPlaceholders == 3

\* the parameters passed to it (line 158)
ExactQueryParams == 2

\* cursor.execute(sql, params): mysql.connector raises ProgrammingError
\* when the statement has more placeholders than there are parameters
ExecuteRaises(placeholders, params) == placeholders > params

\* the rows of the first query, had it been executed with the name bound
\* to both name placeholders
BeersByBreweryName(brewery, beer_name) ==
    SelectSeq(Beers, LAMBDA r : /\ Lower(r.brewery) = Lower(brewery)
                                /\ Lower(r.name) = Lower(beer_name)
                                /\ Lower(Strip(r.name)) = Lower(Strip(beer_name)))

\* the rows of SELECT DISTINCT brewery ... WHERE LOWER(TRIM(brewery)) = LOWER(TRIM(%s))
BreweriesByName(brewery) ==
    SelectSeq(Beers, LAMBDA r : Lower(Strip(r.brewery)) = Lower(Strip(brewery)))

\* lines 160-193 of _validate_beer: the results built from the lookups
BeerLookupResults(beer_data) ==
    IF BeersByBreweryName(beer_data.brewery, beer_data.beer_name) # <<>>
    THEN {BeerResult("existing", r.beer_id, <<1, 1>>, r, <<>>) :
             r \in FetchOne(BeersByBreweryName(beer_data.brewery, beer_data.beer_name))}
    ELSE IF BreweriesByName(beer_data.brewery) # <<>>
    THEN {BeerResult("new_beer_existing_brewery", NoBeerId, <<7, 10>>, NoBeerRow, r.brewery) :
             r \in FetchOne(BreweriesByName(beer_data.brewery))}
    ELSE {BeerResult("new_brewery", NoBeerId, <<0, 1>>, NoBeerRow, <<>>)}

IncompleteBeer == BeerResult("incomplete", NoBeerId, <<0, 1>>, NoBeerRow, <<>>)

\* mutant: the first query is executed before the fields are looked at
ValidateBeerLooksUpFirst(beer_data) ==
    IF ExecuteRaises(ExactQueryPlaceholders, ExactQueryParams)
    THEN [raised |-> TRUE, values |-> {}, lookups |-> 1]
    ELSE IF beer_data.brewery = <<>> \/ beer_data.beer_name = <<>>
    THEN [raised |-> FALSE, values |-> {IncompleteBeer}, lookups |-> 1]
    ELSE [raised |-> FALSE, values |-> BeerLookupResults(beer_data),
          lookups |-> IF BeersByBreweryName(beer_data.brewery, beer_data.beer_name) # <<>>
                      THEN 1 ELSE 2]

\* _validate_beer: [raised, values, lookups]; values are the results it can
\* return, lookups the number of cursor.execute calls it made
ValidateBeer(beer_data) ==
    IF beer_data.brewery = <<>> \/ beer_data.beer_name = <<>>
    THEN [raised |-> FALSE, values |-> {IncompleteBeer}, lookups |-> 0]
    ELSE IF ExecuteRaises(ExactQueryPlaceholders, ExactQueryParams)
    THEN [raised |-> TRUE, values |-> {}, lookups |-> 1]
    ELSE [raised |-> FALSE, values |-> BeerLookupResults(beer_data),
          lookups |-> IF BeersByBreweryName(beer_data.brewery, beer_data.beer_name) # <<>>
                      THEN 1 ELSE 2]

(***************************************************************************)
(* Tier decision engine                                                    *)
(***************************************************************************)
\* 'delay_hours': 24
DelayHours == 24

NoPubResult == PubResult("none", NoPubId, <<0, 1>>, <<>>, <<>>)

NoBeerResult == BeerResult("none", NoBeerId, <<0, 1>>, NoBeerRow, <<>>)

\* ", ".join(reasons)
RECURSIVE JoinReasons(_)
JoinReasons(reasons) ==
    IF reasons = <<>> THEN <<>>
    ELSE IF Len(reasons) = 1 THEN reasons
    ELSE <<reasons[1], ", ">> \o JoinReasons(Tail(reasons))

\* the tier-1 dictionary (lines 256-263)
TierOne(pub_status, beer_status) ==
    [tier |-> 1, status |-> "auto_approved",
     message |-> <<"Approved instantly - we know this pub and beer combination">>,
     action |-> "update_database", delay_hours |-> 0, reasons |-> <<>>,
     pub_data |-> pub_status, beer_data |-> beer_status]

\* the tier-2 dictionary (lines 270-278)
TierTwo(pub_status, beer_status) ==
    [tier |-> 2, status |-> "soft_validation",
     message |-> <<"New beer from known brewery - will be approved in 24 hours unless flagged">>,
     action |-> "queue_soft_validation", delay_hours |-> DelayHours, reasons |-> <<>>,
     pub_data |-> pub_status, beer_data |-> beer_status]

\* mutant: one if/elif chain over the four conditions, so the beer reason is
\* skipped when there is a pub reason
ReasonsSingleChain(pub_status, beer_status) ==
    IF pub_status.status = "new" THEN <<"new pub">>
    ELSE IF pub_status.status = "similar"
    THEN <<"similar pub found - possible duplicate">>
    ELSE IF beer_status.status = "new_brewery" THEN <<"new brewery">>
    ELSE IF beer_status.status = "incomplete"
    THEN <<"incomplete beer information">>
    ELSE <<>>

\* the reasons accumulated for tier 3 (lines 282-291)
Reasons(pub_status, beer_status) ==
    (IF pub_status.status = "new" THEN <<"new pub">>
     ELSE IF pub_status.status = "similar"
     THEN <<"similar pub found - possible duplicate">>
     ELSE <<>>)
    \o
    (IF beer_status.status = "new_brewery" THEN <<"new brewery">>
     ELSE IF beer_status.status = "incomplete"
     THEN <<"incomplete beer information">>
     ELSE <<>>)

\* the tier-3 dictionary (lines 293-301)
TierThree(pub_status, beer_status) ==
    [tier |-> 3, status |-> "manual_review_required",
     message |-> <<"Manual review needed: ">> \o JoinReasons(Reasons(pub_status, beer_status)),
     action |-> "queue_manual_review", delay_hours |-> 0,
     reasons |-> Reasons(pub_status, beer_status),
     pub_data |-> pub_status, beer_data |-> beer_status]

\* mutant: tier 1 as soon as either the pub or the beer is known
DetermineTierEitherKnown(pub_status, beer_status) ==
    IF pub_status.status = "existing" \/ beer_status.status = "existing"
    THEN TierOne(pub_status, beer_status)
    ELSE IF pub_status.status = "existing" /\ beer_status.status = "new_beer_existing_brewery"
    THEN TierTwo(pub_status, beer_status)
    ELSE TierThree(pub_status, beer_status)

\* mutant: the tier-3 return sits inside the beer-status chain, so a beer
\* status without a reason falls off the end of the function
DetermineTierFallsThrough(pub_status, beer_status) ==
    IF pub_status.status = "existing" /\ beer_status.status = "existing"
    THEN TierOne(pub_status, beer_status)
    ELSE IF pub_status.status = "existing" /\ beer_status.status = "new_beer_existing_brewery"
    THEN TierTwo(pub_status, beer_status)
    ELSE IF beer_status.status \in {"new_brewery", "incomplete"}
    THEN TierThree(pub_status, beer_status)
    ELSE [TierThree(pub_status, beer_status) EXCEPT !.tier = 0, !.action = "none"]

\* mutant: tier 2 for a new beer of a known brewery whatever the pub
DetermineTierTwoAnyPub(pub_status, beer_status) ==
    IF pub_status.status = "existing" /\ beer_status.status = "existing"
    THEN TierOne(pub_status, beer_status)
    ELSE IF beer_status.status = "new_beer_existing_brewery"
    THEN TierTwo(pub_status, beer_status)
    ELSE TierThree(pub_status, beer_status)

\* _determine_validation_tier
DetermineValidationTier(pub_status, beer_status) ==
    IF pub_status.status = "existing" /\ beer_status.status = "existing"
    THEN TierOne(pub_status, beer_status)
    ELSE IF pub_status.status = "existing" /\ beer_status.status = "new_beer_existing_brewery"
    THEN TierTwo(pub_status, beer_status)
    ELSE TierThree(pub_status, beer_status)

\* the dictionary validate_submission returns from its except clause
ErrorResult ==
    [tier |-> 3, status |-> "error",
     message |-> <<"Validation error occurred - defaulting to manual review">>,
     action |-> "manual_review", delay_hours |-> 0, reasons |-> <<>>,
     pub_data |-> NoPubResult, beer_data |-> NoBeerResult]

\* mutant: the normaliser runs outside the try block
ValidateSubmissionExtractUncaught(submission_data, connected, queries_ok) ==
    IF ExtractPubData(submission_data).raised \/ ExtractBeerData(submission_data).raised
    THEN {[raised |-> TRUE, propagated |-> TRUE, result |-> ErrorResult]}
    ELSE IF \/ ~connected
            \/ ~queries_ok
            \/ ValidateBeer(ExtractBeerData(submission_data).value).raised
    THEN {[raised |-> TRUE, propagated |-> FALSE, result |-> ErrorResult]}
    ELSE {[raised |-> FALSE, propagated |-> FALSE,
           result |-> DetermineValidationTier(p, b)] :
             p \in ValidatePub(ExtractPubData(submission_data).value),
             b \in ValidateBeer(ExtractBeerData(submission_data).value).values}

\* validate_submission: its possible outcomes [raised, propagated, result].
\* connected: connect() succeeded; queries_ok: no lookup failed at the
\* server.  raised: an exception was raised inside the try block;
\* propagated: it left validate_submission.  The except clause catches
\* Exception, so whatever a step raises ends in ErrorResult.
ValidateSubmission(submission_data, connected, queries_ok) ==
    IF \/ ~connected
       \/ ExtractPubData(submission_data).raised
       \/ ExtractBeerData(submission_data).raised
       \/ ~queries_ok
       \/ ValidateBeer(ExtractBeerData(submission_data).value).raised
    THEN {[raised |-> TRUE, propagated |-> FALSE, result |-> ErrorResult]}
    ELSE {[raised |-> FALSE, propagated |-> FALSE,
           result |-> DetermineValidationTier(p, b)] :
             p \in ValidatePub(ExtractPubData(submission_data).value),
             b \in ValidateBeer(ExtractBeerData(submission_data).value).values}

(***************************************************************************)
(* State                                                                   *)
(***************************************************************************)
\* the callers of process_submission the model knows
Procs == {1, 2}

VARIABLES
    clients,            \* the callers that issue requests in this behaviour
    now,                \* the clock (hours): NOW() and datetime.now()
    started,            \* process_submission calls started so far
    submissions,        \* table submissions, rows in insertion order
    validation_queue,   \* table validation_queue, rows in insertion order
    pub_flags,          \* columns bottle/tap/cask/can of table pubs, committed
    pubs_updates,       \* table pubs_updates, committed rows
    pc,                 \* where each caller is in process_submission
    submission_data,    \* argument of the call
    validation_result,  \* local of process_submission
    submission_id,      \* local of process_submission
    tx,                 \* uncommitted writes of the caller's open connection
    result,             \* what process_submission returned
    hist,               \* history: what happened in the call, and the
                        \* committed store when it started
    probe,              \* a direct call of a function of the engine: its
                        \* arguments and what it returned
    db,                 \* tables breweries, beers and venue_beers, committed
    req                 \* each submit_beer_update request: where it is, its
                        \* locals, its open transaction and its response

vars == <<clients, now, started, submissions, validation_queue, pub_flags,
          pubs_updates, pc, submission_data, validation_result, submission_id,
          tx, result, hist, probe, db, req>>

store_vars == <<submissions, validation_queue, pub_flags, pubs_updates>>

S_bottle == <<"b","o","t","t","l","e">>
S_tap == <<"t","a","p">>
S_cask == <<"c","a","s","k">>
S_can == <<"c","a","n">>
S_keg == <<"k","e","g">>

\* the format columns of table pubs
FlagColumns == {S_bottle, S_tap, S_cask, S_can}

NoSubmission ==
    [pub_id |-> NoPubId, pub_name |-> FAbsent, address |-> FAbsent,
     postcode |-> FAbsent, brewery |-> FAbsent, beer_name |-> FAbsent,
     beer_style |-> FAbsent, beer_abv |-> 0, beer_format |-> FAbsent]

\* no validation result yet
NoValidation == [ErrorResult EXCEPT !.tier = 0, !.status = "none", !.action = "none"]

NoTx == [flags |-> {}, updates |-> <<>>]

NoResult == [returned |-> FALSE, success |-> FALSE, submission_id |-> 0,
             error |-> "", details |-> ""]

NoProbe == [op |-> "none", table |-> "none", arg |-> <<>>, out |-> <<>>]

NoHist == [events |-> {}, submissions |-> <<>>, validation_queue |-> <<>>,
           pub_flags |-> [v \in PubIds |-> {}], pubs_updates |-> <<>>]

\* the raw submissions the end-to-end model draws from
NameInputs == {FAbsent, FNull, FStr(<<"c","r","o","w","n"," ">>), FStr(<<"C","r","o","w","m">>)}

PostcodeInputs == {FAbsent, FStr(<<"s","1"," ","2","a","b">>)}

BreweryInputs == {FStr(<<"t","h","o","r","n">>)}

BeerNameInputs == {FAbsent, FStr(<<" ","j","a","i">>)}

FormatInputs == {FAbsent, FStr(S_tap), FStr(<<"T","a","p"," ">>), FStr(S_keg)}

\* the formats the end-to-end model draws from
EndToEndFormats == {FAbsent, FStr(S_tap)}

PubIdInputs == {NoPubId, 1, 9}

SubmissionInputs ==
    {[pub_id |-> i, pub_name |-> n, address |-> FAbsent, postcode |-> c,
      brewery |-> b, beer_name |-> m, beer_style |-> FAbsent, beer_abv |-> 0,
      beer_format |-> f] :
        i \in PubIdInputs, n \in NameInputs, c \in PostcodeInputs,
        b \in BreweryInputs, m \in BeerNameInputs, f \in EndToEndFormats}

\* the raw submissions the processor model draws from: process_submission
\* itself reads beer_format only
ProcessorInputs ==
    {[NoSubmission EXCEPT !.beer_format = f] : f \in FormatInputs}

\* the pub descriptors behind PubResults
PubDescriptors ==
    {[pub_id |-> i, name |-> n, address |-> <<>>, postcode |-> c] :
        i \in {NoPubId, 1, 2},
        n \in {S_Crown, <<"C","r","o","w","m">>, <<"Z","z">>},
        c \in {<<>>, S_S12AB}}

BeerDescriptors ==
    {[brewery |-> b, beer_name |-> m, style |-> <<>>, abv |-> 0, format |-> <<>>] :
        b \in {S_Thorn, <<"N","e","w">>},
        m \in {<<"j","a","i">>, <<"i","P","A">>, <<"N","o","v","a">>}}

\* the results the return statements of _validate_pub build
PubResults == UNION {ValidatePub(d) : d \in PubDescriptors}

\* the results the return statements of _validate_beer build
BeerResults == {IncompleteBeer} \cup UNION {BeerLookupResults(d) : d \in BeerDescriptors}

\* the results validate_submission is written to return
EngineResults ==
    {ErrorResult} \cup {DetermineValidationTier(p, b) : p \in PubResults, b \in BeerResults}

Happened(p, e) == e \in hist[p].events

Record(p, e) == [hist EXCEPT ![p].events = @ \cup {e}]

\* rows of the tables of submit_beer_update when the requests arrive:
\* users (the active ones), breweries, beers
Users == {1}

S_Nova == <<"N","o","v","a">>
S_Ale == <<"A","l","e">>

Breweries == << [brewery_id |-> 1, brewery_name |-> S_Thorn] >>

BreweryBeers == << [brewery_id |-> 1, beer_id |-> 1, beer_name |-> S_Jai] >>

\* the committed tables; the schema of breweries and beers is not part of
\* the program: keyed says whether brewery_id and beer_id are keys of their
\* tables. report_id of venue_beers is generated (cursor.lastrowid).
InitDb(keyed) ==
    [keyed |-> keyed,
     breweries |-> Breweries,
     beers |-> BreweryBeers,
     venue_beers |-> <<>>,
     last_report_id |-> 0]

NoRows == [breweries |-> <<>>, beers |-> <<>>, venue_beers |-> <<>>]

NoData ==
    [user_id |-> 0, venue_id |-> 0, format |-> <<>>, brewery_name |-> <<>>,
     beer_name |-> <<>>]

NoResponse == [code |-> 0, brewery_id |-> 0, beer_id |-> 0, report_id |-> 0]

\* a request that has not arrived
NoRequest ==
    [pc |-> "idle", data |-> NoData, snapshot |-> NoRows, inserted |-> NoRows,
     updated |-> {}, brewery_id |-> 0, beer_id |-> 0, report_id |-> 0,
     response |-> NoResponse]

InitStore ==
    /\ submissions = <<>>
    /\ validation_queue = <<>>
    /\ pub_flags = [v \in PubIds |-> {}]
    /\ pubs_updates = <<>>

InitCalls ==
    /\ now = 0
    /\ started = 0
    /\ pc = [p \in Procs |-> "idle"]
    /\ submission_data = [p \in Procs |-> NoSubmission]
    /\ validation_result = [p \in Procs |-> NoValidation]
    /\ submission_id = [p \in Procs |-> 0]
    /\ tx = [p \in Procs |-> NoTx]
    /\ result = [p \in Procs |-> NoResult]
    /\ hist = [p \in Procs |-> NoHist]
    /\ probe = NoProbe
    /\ req = [p \in Procs |-> NoRequest]

\* one caller at a time
Init == clients = {1} /\ InitStore /\ InitCalls /\ db = InitDb(TRUE)

(***************************************************************************)
(* process_submission                                                      *)
(***************************************************************************)
\* a caller calls process_submission(submission_data); time may have passed
Call(p, inputs) ==
    /\ p \in clients
    /\ pc[p] = "idle"
    /\ started < MaxRequests
    /\ \E s \in inputs, d \in {0, 1} :
          /\ submission_data' = [submission_data EXCEPT ![p] = s]
          /\ now' = now + d
    /\ started' = started + 1
    /\ pc' = [pc EXCEPT ![p] = "validate"]
    /\ validation_result' = [validation_result EXCEPT ![p] = NoValidation]
    /\ submission_id' = [submission_id EXCEPT ![p] = 0]
    /\ result' = [result EXCEPT ![p] = NoResult]
    /\ hist' = [hist EXCEPT ![p] =
                   [events |-> {}, submissions |-> submissions,
                    validation_queue |-> validation_queue,
                    pub_flags |-> pub_flags, pubs_updates |-> pubs_updates]]
    /\ UNCHANGED <<clients, probe, db, req, tx, store_vars>>

Request(p) == Call(p, SubmissionInputs)

ProcessorRequest(p) == Call(p, ProcessorInputs)

\* the except clause of process_submission
Failure(details) ==
    [returned |-> TRUE, success |-> FALSE, submission_id |-> 0,
     error |-> "Failed to process submission", details |-> details]

Raise(p, events, details) ==
    /\ result' = [result EXCEPT ![p] = Failure(details)]
    /\ tx' = [tx EXCEPT ![p] = NoTx]
    /\ hist' = [hist EXCEPT ![p].events = @ \cup events]
    /\ pc' = [pc EXCEPT ![p] = "done"]

\* step 1: validation_result = self.validation_engine.validate_submission(...);
\* an exception leaving the engine would end in the except clause of
\* process_submission
Validate(p) ==
    /\ pc[p] = "validate"
    /\ \E connected \in BOOLEAN, queries_ok \in BOOLEAN :
          \E v \in ValidateSubmission(submission_data[p], connected, queries_ok) :
              IF v.propagated
              THEN /\ Raise(p, {"validation_propagated"}, "validation")
                   /\ UNCHANGED validation_result
              ELSE /\ validation_result' = [validation_result EXCEPT ![p] = v.result]
                   /\ hist' = [hist EXCEPT ![p].events =
                                  @ \cup (IF v.raised THEN {"validation_raised"} ELSE {})
                                    \cup (IF connected /\ queries_ok THEN {}
                                          ELSE {"validation_db_failed"})]
                   /\ pc' = [pc EXCEPT ![p] = "store"]
                   /\ UNCHANGED <<tx, result>>
    /\ UNCHANGED <<clients, probe, db, req, now, started, store_vars, submission_data, submission_id>>

\* step 1 with the engine as a collaborator: it returns one of results
EngineReturnsFrom(p, results) ==
    /\ pc[p] = "validate"
    /\ \E v \in results :
          /\ validation_result' = [validation_result EXCEPT ![p] = v]
          /\ hist' = IF v = ErrorResult THEN Record(p, "validation_raised") ELSE hist
    /\ pc' = [pc EXCEPT ![p] = "store"]
    /\ UNCHANGED <<clients, probe, db, req, now, started, store_vars, submission_data,
                   submission_id, tx, result>>

\* the engine returns any result it is written to return
EngineReturns(p) == EngineReturnsFrom(p, EngineResults)

\* step 4: the success dictionary
Return(p) ==
    /\ result' = [result EXCEPT ![p] =
                     [returned |-> TRUE, success |-> TRUE,
                      submission_id |-> submission_id[p],
                      error |-> "", details |-> ""]]
    /\ pc' = [pc EXCEPT ![p] = "done"]

\* mutant: the row is written with the tier column's default
SubmissionRowDefaultTier(id, data, v) ==
    [submission_id |-> id, validation_tier |-> 3, validation_status |-> v.status]

\* the row _store_submission inserts: its id and the two columns taken from
\* the validation result (the other columns copy the raw input)
SubmissionRow(id, data, v) ==
    [submission_id |-> id,
     validation_tier |-> v.tier, validation_status |-> v.status]

\* mutant: a submission whose validation failed is not recorded
StoreSubmissionUnlessError(p) ==
    /\ pc[p] = "store"
    /\ submissions' =
           IF validation_result[p].status = "error" THEN submissions
           ELSE Append(submissions,
                       SubmissionRow(Len(submissions) + 1, submission_data[p],
                                     validation_result[p]))
    /\ submission_id' = [submission_id EXCEPT ![p] = Len(submissions')]
    /\ hist' = Record(p, "stored")
    /\ pc' = [pc EXCEPT ![p] = "action"]
    /\ UNCHANGED <<clients, probe, db, req, now, started, validation_queue, pub_flags, pubs_updates,
                   submission_data, validation_result, tx, result>>

\* step 2: _store_submission, INSERT and commit; lastrowid is the new id
StoreSubmission(p) ==
    /\ pc[p] = "store"
    /\ submissions' = Append(submissions,
                             SubmissionRow(Len(submissions) + 1, submission_data[p],
                                           validation_result[p]))
    /\ submission_id' = [submission_id EXCEPT ![p] = Len(submissions) + 1]
    /\ hist' = Record(p, "stored")
    /\ pc' = [pc EXCEPT ![p] = "action"]
    /\ UNCHANGED <<clients, probe, db, req, now, started, validation_queue, pub_flags, pubs_updates,
                   submission_data, validation_result, tx, result>>

\* mutant: the failure of the insert is swallowed and step 3 runs
StoreFailsSwallowed(p) ==
    /\ pc[p] = "store"
    /\ hist' = Record(p, "store_failed")
    /\ pc' = [pc EXCEPT ![p] = "action"]
    /\ UNCHANGED <<clients, probe, db, req, now, started, store_vars, submission_data,
                   validation_result, submission_id, tx, result>>

\* step 2 fails: connect, INSERT or commit raises; nothing is committed
StoreFails(p) ==
    /\ pc[p] = "store"
    /\ Raise(p, {"store_failed"}, "mysql error")
    /\ UNCHANGED <<clients, probe, db, req, now, started, store_vars, submission_data,
                   validation_result, submission_id>>

(***************************************************************************)
(* step 3, action update_database: _update_database_immediately            *)
(***************************************************************************)
\* UPDATE pubs SET <column> = 1 WHERE pub_id = %s, uncommitted; no branch
\* of the if/elif chain matches a format that is not a column name
UpdateFlag(p) ==
    /\ pc[p] = "action"
    /\ validation_result[p].action = "update_database"
    /\ submission_data[p].beer_format.k # "absent"
    /\ LET pub_id == validation_result[p].pub_data.pub_id
           beer_format == submission_data[p].beer_format.v
       IN tx' = [tx EXCEPT ![p].flags =
                    IF beer_format \in FlagColumns THEN {<<pub_id, beer_format>>} ELSE {}]
    /\ pc' = [pc EXCEPT ![p] = "insert_update"]
    /\ UNCHANGED <<clients, probe, db, req, now, started, store_vars, submission_data,
                   validation_result, submission_id, result, hist>>

\* submission_data['beer_format'] of a mapping without the key: KeyError
UpdateKeyError(p) ==
    /\ pc[p] = "action"
    /\ validation_result[p].action = "update_database"
    /\ submission_data[p].beer_format.k = "absent"
    /\ Raise(p, {"action_failed"}, "'beer_format'")
    /\ UNCHANGED <<clients, probe, db, req, now, started, store_vars, submission_data,
                   validation_result, submission_id>>

\* INSERT INTO pubs_updates ... ON DUPLICATE KEY UPDATE, uncommitted
InsertUpdate(p) ==
    /\ pc[p] = "insert_update"
    /\ tx' = [tx EXCEPT ![p].updates =
                 IF validation_result[p].beer_data.status = "existing"
                 THEN <<[pub_id |-> validation_result[p].pub_data.pub_id,
                         beer_id |-> validation_result[p].beer_data.beer_id,
                         beer_format |-> submission_data[p].beer_format.v,
                         update_time |-> now]>>
                 ELSE <<>>]
    /\ pc' = [pc EXCEPT ![p] = "commit"]
    /\ UNCHANGED <<clients, probe, db, req, now, started, store_vars, submission_data,
                   validation_result, submission_id, result, hist>>

\* the unique key of table pubs_updates: one row per (venue, beer, format)
SameKey(r, q) ==
    r.pub_id = q.pub_id /\ r.beer_id = q.beer_id /\ r.beer_format = q.beer_format

\* mutant: a plain INSERT that the table accepts, a second row for the key
UpsertAlwaysAppends(rows, r) == Append(rows, r)

\* mutant: ON DUPLICATE KEY UPDATE leaves update_time as it was
UpsertKeepsTime(rows, r) ==
    IF \E i \in DOMAIN rows : SameKey(rows[i], r) THEN rows ELSE Append(rows, r)

\* the table after INSERT ... ON DUPLICATE KEY UPDATE update_time = NOW()
\* under the unique key (pub_id, beer_id, beer_format)
Upsert(rows, r) ==
    IF \E i \in DOMAIN rows : SameKey(rows[i], r)
    THEN [i \in DOMAIN rows |->
             IF SameKey(rows[i], r) THEN [rows[i] EXCEPT !.update_time = r.update_time]
             ELSE rows[i]]
    ELSE Append(rows, r)

RECURSIVE UpsertAll(_, _)
UpsertAll(rows, rs) ==
    IF rs = <<>> THEN rows ELSE UpsertAll(Upsert(rows, Head(rs)), Tail(rs))

\* the pubs columns after the transaction's UPDATEs
WithFlags(flags, set) ==
    [v \in PubIds |-> flags[v] \cup {c \in FlagColumns : <<v, c>> \in set}]

\* conn.commit(): both writes become visible together
CommitUpdate(p) ==
    /\ pc[p] = "commit"
    /\ pub_flags' = WithFlags(pub_flags, tx[p].flags)
    /\ pubs_updates' = UpsertAll(pubs_updates, tx[p].updates)
    /\ tx' = [tx EXCEPT ![p] = NoTx]
    /\ hist' = Record(p, "applied")
    /\ Return(p)
    /\ UNCHANGED <<clients, probe, db, req, now, started, submissions, validation_queue,
                   submission_data, validation_result, submission_id>>

\* mutant: the connection commits each statement as it runs, so a failure
\* leaves the statements before it in the store
UpdateFailsAutocommit(p) ==
    /\ \/ pc[p] = "action" /\ validation_result[p].action = "update_database"
       \/ pc[p] \in {"insert_update", "commit"}
    /\ pub_flags' = WithFlags(pub_flags, tx[p].flags)
    /\ pubs_updates' = UpsertAll(pubs_updates, tx[p].updates)
    /\ Raise(p, {"action_failed", "failed_at_" \o pc[p]}, "mysql error")
    /\ UNCHANGED <<clients, probe, db, req, now, started, submissions, validation_queue,
                   submission_data, validation_result, submission_id>>

\* connect, a statement or the commit raises: the finally clause closes the
\* connection and the uncommitted writes are rolled back
UpdateFails(p) ==
    /\ \/ pc[p] = "action" /\ validation_result[p].action = "update_database"
       \/ pc[p] \in {"insert_update", "commit"}
    /\ Raise(p, {"action_failed", "failed_at_" \o pc[p]}, "mysql error")
    /\ UNCHANGED <<clients, probe, db, req, now, started, store_vars, submission_data,
                   validation_result, submission_id>>

(***************************************************************************)
(* step 3, the queue actions                                               *)
(***************************************************************************)
QueueRow(id, type, time, reasons) ==
    [submission_id |-> id, validation_type |-> type,
     scheduled_approval_time |-> time, review_reasons |-> reasons,
     status |-> "pending"]

\* no scheduled_approval_time (NULL)
NoTime == -1

\* ",".join(reasons)
RECURSIVE JoinComma(_)
JoinComma(reasons) ==
    IF reasons = <<>> THEN <<>>
    ELSE IF Len(reasons) = 1 THEN reasons
    ELSE <<reasons[1], ",">> \o JoinComma(Tail(reasons))

\* mutant: the entry is scheduled for the time of processing
QueueSoftValidationNoDelay(p) ==
    /\ pc[p] = "action"
    /\ validation_result[p].action = "queue_soft_validation"
    /\ validation_queue' =
           Append(validation_queue,
                  QueueRow(submission_id[p], "soft_validation", now, <<>>))
    /\ hist' = Record(p, "queued")
    /\ Return(p)
    /\ UNCHANGED <<clients, probe, db, req, now, started, submissions, pub_flags, pubs_updates,
                   submission_data, validation_result, submission_id, tx>>

\* _queue_soft_validation
QueueSoftValidation(p) ==
    /\ pc[p] = "action"
    /\ validation_result[p].action = "queue_soft_validation"
    /\ validation_queue' =
           Append(validation_queue,
                  QueueRow(submission_id[p], "soft_validation",
                           now + validation_result[p].delay_hours, <<>>))
    /\ hist' = Record(p, "queued")
    /\ Return(p)
    /\ UNCHANGED <<clients, probe, db, req, now, started, submissions, pub_flags, pubs_updates,
                   submission_data, validation_result, submission_id, tx>>

QueueSoftFails(p) ==
    /\ pc[p] = "action"
    /\ validation_result[p].action = "queue_soft_validation"
    /\ Raise(p, {"action_failed"}, "mysql error")
    /\ UNCHANGED <<clients, probe, db, req, now, started, store_vars, submission_data,
                   validation_result, submission_id>>

\* mutant: the entry is inserted without its reasons
QueueManualReviewNoReasons(p) ==
    /\ pc[p] = "action"
    /\ validation_result[p].action = "queue_manual_review"
    /\ validation_queue' =
           Append(validation_queue,
                  QueueRow(submission_id[p], "manual_review", NoTime, <<>>))
    /\ hist' = Record(p, "queued")
    /\ Return(p)
    /\ UNCHANGED <<clients, probe, db, req, now, started, submissions, pub_flags, pubs_updates,
                   submission_data, validation_result, submission_id, tx>>

\* _queue_manual_review
QueueManualReview(p) ==
    /\ pc[p] = "action"
    /\ validation_result[p].action = "queue_manual_review"
    /\ validation_queue' =
           Append(validation_queue,
                  QueueRow(submission_id[p], "manual_review", NoTime,
                           JoinComma(validation_result[p].reasons)))
    /\ hist' = Record(p, "queued")
    /\ Return(p)
    /\ UNCHANGED <<clients, probe, db, req, now, started, submissions, pub_flags, pubs_updates,
                   submission_data, validation_result, submission_id, tx>>

QueueManualFails(p) ==
    /\ pc[p] = "action"
    /\ validation_result[p].action = "queue_manual_review"
    /\ Raise(p, {"action_failed"}, "mysql error")
    /\ UNCHANGED <<clients, probe, db, req, now, started, store_vars, submission_data,
                   validation_result, submission_id>>

\* the actions process_submission dispatches on
DispatchedActions == {"update_database", "queue_soft_validation", "queue_manual_review"}

\* no branch of the if/elif chain of step 3 matches: straight to step 4
NoAction(p) ==
    /\ pc[p] = "action"
    /\ validation_result[p].action \notin DispatchedActions
    /\ Return(p)
    /\ UNCHANGED <<clients, probe, db, req, now, started, store_vars, submission_data,
                   validation_result, submission_id, tx, hist>>

\* the caller takes the result; its next call starts from scratch
Finish(p) ==
    /\ pc[p] = "done"
    /\ pc' = [pc EXCEPT ![p] = "idle"]
    /\ submission_data' = [submission_data EXCEPT ![p] = NoSubmission]
    /\ validation_result' = [validation_result EXCEPT ![p] = NoValidation]
    /\ submission_id' = [submission_id EXCEPT ![p] = 0]
    /\ result' = [result EXCEPT ![p] = NoResult]
    /\ hist' = [hist EXCEPT ![p] = NoHist]
    /\ UNCHANGED <<clients, probe, db, req, now, started, store_vars, tx>>

(***************************************************************************)
(* Specifications                                                          *)
(***************************************************************************)
\* End to end: the engine as written validates every submission.  With
\* _validate_beer raising on every complete beer (ExecuteRaises), the
\* engine never returns update_database or queue_soft_validation, so the
\* steps of those branches are not steps of this specification.
Next ==
    \E p \in Procs :
        \/ Request(p)
        \/ Validate(p)
        \/ StoreSubmission(p)
        \/ StoreFails(p)
        \/ QueueManualReview(p)
        \/ QueueManualFails(p)
        \/ NoAction(p)
        \/ Finish(p)

Spec == Init /\ [][Next]_vars

\* The processor with the engine as a collaborator that returns any of the
\* results it is written to return.
NextProcessor ==
    \E p \in Procs :
        \/ ProcessorRequest(p)
        \/ EngineReturns(p)
        \/ StoreSubmission(p)
        \/ StoreFails(p)
        \/ UpdateFlag(p)
        \/ UpdateKeyError(p)
        \/ InsertUpdate(p)
        \/ CommitUpdate(p)
        \/ UpdateFails(p)
        \/ QueueSoftValidation(p)
        \/ QueueSoftFails(p)
        \/ QueueManualReview(p)
        \/ QueueManualFails(p)
        \/ NoAction(p)
        \/ Finish(p)

SpecProcessor == Init /\ [][NextProcessor]_vars

\* two callers at a time
InitConcurrent == clients = Procs /\ InitStore /\ InitCalls /\ db = InitDb(TRUE)

\* the raw submissions and the engine results the concurrent model draws
\* from: a result for each action, two beers at one venue
ConcurrentInputs ==
    {[NoSubmission EXCEPT !.beer_format = f] : f \in {FAbsent, FStr(S_tap), FStr(S_keg)}}

ConcurrentResults ==
    {ErrorResult} \cup
    {DetermineValidationTier(p, b) :
        p \in {r \in PubResults : r.status \in {"existing", "new"} /\ r.pub_id \in {NoPubId, 1}},
        b \in {r \in BeerResults : r.status \in {"existing", "new_beer_existing_brewery"}}}

ConcurrentRequest(p) == Call(p, ConcurrentInputs)

ConcurrentEngineReturns(p) == EngineReturnsFrom(p, ConcurrentResults)

\* The processor called concurrently: the steps of the two calls interleave,
\* each call on connections of its own.
NextConcurrent ==
    \E p \in Procs :
        \/ ConcurrentRequest(p)
        \/ ConcurrentEngineReturns(p)
        \/ StoreSubmission(p)
        \/ StoreFails(p)
        \/ UpdateFlag(p)
        \/ UpdateKeyError(p)
        \/ InsertUpdate(p)
        \/ CommitUpdate(p)
        \/ UpdateFails(p)
        \/ QueueSoftValidation(p)
        \/ QueueSoftFails(p)
        \/ QueueManualReview(p)
        \/ QueueManualFails(p)
        \/ NoAction(p)
        \/ Finish(p)

SpecConcurrent == InitConcurrent /\ [][NextConcurrent]_vars

(***************************************************************************)
(* The functions of the engine called directly                             *)
(***************************************************************************)
\* the states of table pubs the matcher is called on
TwinPubs ==
    Append(Pubs, [pub_id |-> 4, name |-> S_Crown, address |-> <<"4">>, postcode |-> S_S12AB])

S_Inn == <<"I","n","n">>

\* one venue more than the candidate query returns, all in one postcode area
CrowdedPubs ==
    [i \in 1..(CandidateCap + 1) |->
        [pub_id |-> i, name |-> IF i = 1 THEN S_Crown ELSE S_Inn,
         address |-> <<>>, postcode |-> S_S12AB]]

\* venues of one postcode area whose names resemble each other
LookalikePubs ==
    << [pub_id |-> 1, name |-> <<"C","r","o","w","n","e">>, address |-> <<>>, postcode |-> S_S12AB],
       [pub_id |-> 2, name |-> <<"K","r","o","w","n">>, address |-> <<>>, postcode |-> S_S12AB],
       [pub_id |-> 3, name |-> S_Crown, address |-> <<>>, postcode |-> S_S12AB],
       [pub_id |-> 4, name |-> <<"C","r","o","w","n","s">>, address |-> <<>>, postcode |-> S_S12AB],
       [pub_id |-> 5, name |-> <<"C","r","o","w">>, address |-> <<>>, postcode |-> S_S12AB] >>

PubTableNames == {"listed", "twins", "crowded", "lookalikes"}

PubTable(t) ==
    IF t = "listed" THEN Pubs
    ELSE IF t = "twins" THEN TwinPubs
    ELSE IF t = "crowded" THEN CrowdedPubs
    ELSE LookalikePubs

\* the descriptors the pub matcher is called with
MatcherPubDescriptors ==
    {[pub_id |-> i, name |-> n, address |-> <<>>, postcode |-> c] :
        i \in {NoPubId, 1, 2, 9},
        n \in {<<>>, S_Crown, <<"C","r","o","w","m">>, <<"b","e","l","l">>,
                <<"C","r","o","w","n"," ","I","n","n">>},
        c \in {<<>>, S_S12AB, S_M41XY, <<"S","_"," ","2","A","B">>}}

\* the descriptors the beer matcher is called with
MatcherBeerDescriptors ==
    {[brewery |-> b, beer_name |-> m, style |-> <<>>, abv |-> 0, format |-> <<>>] :
        b \in {<<>>, S_Thorn, <<"t","h","o","r","n">>, <<"N","e","w">>},
        m \in {<<>>, S_Jai, <<"j","a","i">>, <<"N","o","v","a">>}}

\* the raw fields the normaliser is called with
RawFields == {FAbsent, FNull, FStr(<<>>), FStr(<<" ","a","B"," ">>)}

RawSubmissions ==
    {[NoSubmission EXCEPT !.pub_name = n, !.postcode = c, !.brewery = b,
                          !.beer_format = f, !.beer_abv = a] :
        n \in RawFields, c \in RawFields, b \in RawFields, f \in RawFields,
        a \in {0, 45}}

\* every variable of process_submission
call_vars == <<clients, now, started, store_vars, pc, submission_data,
               validation_result, submission_id, tx, result, hist>>

\* _extract_pub_data(submission) and _extract_beer_data(submission)
ExtractData ==
    /\ probe.op = "none"
    /\ \E s \in RawSubmissions :
          probe' = [op |-> "extract", table |-> "none", arg |-> s,
                    out |-> <<ExtractPubData(s), ExtractBeerData(s)>>]
    /\ UNCHANGED <<call_vars, db, req>>

\* _validate_pub(cursor, pub_data), twice on the same state of the table
MatchPub ==
    /\ probe.op = "none"
    /\ \E t \in PubTableNames, d \in MatcherPubDescriptors :
          \E results \in {ValidatePubIn(PubTable(t), d)} :
              \E r1 \in results, r2 \in results :
                  probe' = [op |-> "validate_pub", table |-> t, arg |-> d,
                            out |-> <<r1, r2>>]
    /\ UNCHANGED <<call_vars, db, req>>

\* neither lookup of _validate_pub finds a row
NoLookupHit(pubs, pub_data) ==
    /\ pub_data.pub_id = NoPubId \/ PubsById(pubs, pub_data.pub_id) = <<>>
    /\ \/ pub_data.name = <<>>
       \/ pub_data.postcode = <<>>
       \/ PubsByNamePostcode(pubs, pub_data.name, pub_data.postcode) = <<>>

\* the fuzzy branch of _validate_pub (lines 128-141): the candidates
\* fetched, the list _find_similar_pubs returns, the result built from it
FuzzyMatch ==
    /\ probe.op = "none"
    /\ \E t \in PubTableNames, d \in MatcherPubDescriptors :
          /\ NoLookupHit(PubTable(t), d)
          /\ \E candidates \in Candidates(PubTable(t), d) :
                \E matches \in {RankMatches(d, candidates)} :
                    probe' = [op |-> "find_similar_pubs", table |-> t, arg |-> d,
                              out |-> <<candidates, matches, SimilarOrNew(matches)>>]
    /\ UNCHANGED <<call_vars, db, req>>

\* pairs <<name_similarity, postcode_similarity>> of ratios: confidences
\* below, at (0.7 * 5/7 + 0.3, 0.7 * 4/5 + 0.3 * 4/5), just above (0.8001)
\* and above the threshold
ScorePairs ==
    {<<<<10, 14>>, <<12, 12>>>>, <<<<8, 10>>, <<8, 10>>>>,
     <<<<10002, 14000>>, <<1, 1>>>>, <<<<8, 11>>, <<12, 12>>>>,
     <<<<8, 10>>, <<12, 12>>>>, <<<<6, 10>>, <<12, 12>>>>,
     <<<<10, 10>>, <<0, 6>>>>, <<<<10, 10>>, <<4, 12>>>>}

\* the body of the loop of _find_similar_pubs for one candidate (lines
\* 227-240): the confidence, and whether the candidate is appended
ScoreCandidate ==
    /\ probe.op = "none"
    /\ \E pair \in ScorePairs :
          \E c \in {Confidence(pair[1], pair[2])} :
              probe' = [op |-> "score", table |-> "none", arg |-> pair,
                        out |-> <<c, AboveThreshold(c)>>]
    /\ UNCHANGED <<call_vars, db, req>>

\* _validate_beer(cursor, beer_data), twice on the same state of the table
MatchBeer ==
    /\ probe.op = "none"
    /\ \E d \in MatcherBeerDescriptors :
          \E v \in {ValidateBeer(d)} :
              IF v.raised
              THEN probe' = [op |-> "validate_beer", table |-> "listed", arg |-> d,
                             out |-> <<[raised |-> TRUE, value |-> NoBeerResult,
                                        lookups |-> v.lookups],
                                       [raised |-> TRUE, value |-> NoBeerResult,
                                        lookups |-> v.lookups]>>]
              ELSE \E r1 \in v.values, r2 \in v.values :
                      probe' = [op |-> "validate_beer", table |-> "listed", arg |-> d,
                                out |-> <<[raised |-> FALSE, value |-> r1,
                                           lookups |-> v.lookups],
                                          [raised |-> FALSE, value |-> r2,
                                           lookups |-> v.lookups]>>]
    /\ UNCHANGED <<call_vars, db, req>>

\* the caller takes the result
ProbeDone ==
    /\ probe.op # "none"
    /\ probe' = NoProbe
    /\ UNCHANGED <<call_vars, db, req>>

NextMatcher ==
    ExtractData \/ MatchPub \/ FuzzyMatch \/ ScoreCandidate \/ MatchBeer \/ ProbeDone

SpecMatcher == Init /\ [][NextMatcher]_vars

(***************************************************************************)
(* submit_beer_update                                                      *)
(***************************************************************************)
\* the JSON bodies posted: format is data.get('format') or
\* data.get('beer_format'); 0 and <<>> stand for a missing or empty field
ReportData(user_id, venue_id, format, brewery_name, beer_name) ==
    [user_id |-> user_id, venue_id |-> venue_id, format |-> format,
     brewery_name |-> brewery_name, beer_name |-> beer_name]

ReportInputs ==
    {ReportData(1, 1, S_tap, S_Nova, S_Ale),
     ReportData(1, 1, S_tap, Lower(S_Nova), S_Ale),
     ReportData(1, 1, S_tap, S_Thorn, S_Ale),
     ReportData(1, 1, S_tap, S_Thorn, Lower(S_Jai)),
     ReportData(0, 1, S_tap, S_Nova, S_Ale),
     ReportData(9, 1, S_tap, S_Nova, S_Ale),
     ReportData(1, 1, <<>>, S_Nova, S_Ale)}

\* all([venue_id, format_type, brewery_name, beer_name])
Complete(data) ==
    /\ data.venue_id # 0
    /\ data.format # <<>>
    /\ data.brewery_name # <<>>
    /\ data.beer_name # <<>>

\* what the statements of a request read: the rows committed when its
\* transaction first read (the consistent read of the connection's default
\* isolation level) and the rows it inserted itself
View(r) ==
    [breweries |-> r.snapshot.breweries \o r.inserted.breweries,
     beers |-> r.snapshot.beers \o r.inserted.beers,
     venue_beers |-> r.snapshot.venue_beers \o r.inserted.venue_beers]

\* SELECT MAX(id): max_rows[0]['max_id'] if max_rows[0]['max_id'] else 0
MaxId(ids) == IF ids = {} THEN 0 ELSE CHOOSE m \in ids : \A n \in ids : n <= m

\* return jsonify(...), code; the finally clause closes the connection
Respond(r, code) ==
    [r EXCEPT !.pc = "done",
              !.snapshot = NoRows,
              !.inserted = NoRows,
              !.updated = {},
              !.response =
                  IF code = 200
                  THEN [code |-> 200, brewery_id |-> r.brewery_id,
                        beer_id |-> r.beer_id, report_id |-> r.report_id]
                  ELSE [NoResponse EXCEPT !.code = code]]

\* request.get_json()
ReceiveReport(p) ==
    /\ p \in clients
    /\ req[p].pc = "idle"
    /\ \E data \in ReportInputs :
           req' = [req EXCEPT ![p] = [NoRequest EXCEPT !.pc = "received",
                                                       !.data = data]]
    /\ UNCHANGED <<call_vars, probe, db>>

\* if not user_id: 401
NoUserId(p) ==
    /\ req[p].pc = "received"
    /\ req[p].data.user_id = 0
    /\ req' = [req EXCEPT ![p] = Respond(@, 401)]
    /\ UNCHANGED <<call_vars, probe, db>>

\* if not all([...]): 400
MissingFields(p) ==
    /\ req[p].pc = "received"
    /\ req[p].data.user_id # 0
    /\ ~Complete(req[p].data)
    /\ req' = [req EXCEPT ![p] = Respond(@, 400)]
    /\ UNCHANGED <<call_vars, probe, db>>

\* connect; SELECT ... FROM users: the first read of the transaction
VerifyUser(p) ==
    /\ req[p].pc = "received"
    /\ req[p].data.user_id # 0
    /\ Complete(req[p].data)
    /\ LET r == [req[p] EXCEPT !.snapshot =
                    [breweries |-> db.breweries, beers |-> db.beers,
                     venue_beers |-> db.venue_beers]]
       IN req' = [req EXCEPT ![p] =
                     IF r.data.user_id \in Users
                     THEN [r EXCEPT !.pc = "brewery"]
                     ELSE Respond(r, 401)]
    /\ UNCHANGED <<call_vars, probe, db>>

\* the ids of the rows of a table
Ids(rows, field) == {rows[i][field] : i \in DOMAIN rows}

\* STEP 1: SELECT brewery_id ... WHERE LOWER(brewery_name) = LOWER(%s);
\* brewery_rows[0] of a SELECT without ORDER BY is any of the rows found;
\* without a row, SELECT MAX(brewery_id) and brewery_id = max + 1
SelectBrewery(p) ==
    /\ req[p].pc = "brewery"
    /\ LET r == req[p]
           brewery_rows ==
               SelectSeq(View(r).breweries,
                         LAMBDA b : Lower(b.brewery_name) = Lower(r.data.brewery_name))
       IN IF brewery_rows # <<>>
          THEN \E i \in DOMAIN brewery_rows :
                   req' = [req EXCEPT ![p].brewery_id = brewery_rows[i].brewery_id,
                                      ![p].pc = "beer"]
          ELSE req' = [req EXCEPT
                          ![p].brewery_id =
                              MaxId(Ids(View(r).breweries, "brewery_id")) + 1,
                          ![p].pc = "insert_brewery"]
    /\ UNCHANGED <<call_vars, probe, db>>

\* an open transaction of another request has inserted a row with this key:
\* the INSERT waits until that transaction ends
Locked(p, table, field, id) ==
    /\ db.keyed
    /\ \E q \in Procs \ {p} : id \in Ids(req[q].inserted[table], field)

\* a committed row has this key: the INSERT raises a duplicate-key error
Duplicate(table, field, id) == db.keyed /\ id \in Ids(db[table], field)

\* INSERT INTO breweries (brewery_id, brewery_name, created_by_id)
InsertBrewery(p) ==
    /\ req[p].pc = "insert_brewery"
    /\ ~Locked(p, "breweries", "brewery_id", req[p].brewery_id)
    /\ ~Duplicate("breweries", "brewery_id", req[p].brewery_id)
    /\ req' = [req EXCEPT
                  ![p].inserted.breweries =
                      Append(@, [brewery_id |-> req[p].brewery_id,
                                 brewery_name |-> req[p].data.brewery_name]),
                  ![p].pc = "beer"]
    /\ UNCHANGED <<call_vars, probe, db>>

\* except Exception: conn.rollback() and 500
DuplicateBrewery(p) ==
    /\ req[p].pc = "insert_brewery"
    /\ ~Locked(p, "breweries", "brewery_id", req[p].brewery_id)
    /\ Duplicate("breweries", "brewery_id", req[p].brewery_id)
    /\ req' = [req EXCEPT ![p] = Respond(@, 500)]
    /\ UNCHANGED <<call_vars, probe, db>>

\* STEP 2: SELECT beer_id ... WHERE brewery_id = %s AND LOWER(beer_name) =
\* LOWER(%s); without a row, SELECT MAX(beer_id) and beer_id = max + 1
SelectBeer(p) ==
    /\ req[p].pc = "beer"
    /\ LET r == req[p]
           beer_rows ==
               SelectSeq(View(r).beers,
                         LAMBDA b : /\ b.brewery_id = r.brewery_id
                                    /\ Lower(b.beer_name) = Lower(r.data.beer_name))
       IN IF beer_rows # <<>>
          THEN \E i \in DOMAIN beer_rows :
                   req' = [req EXCEPT ![p].beer_id = beer_rows[i].beer_id,
                                      ![p].pc = "report"]
          ELSE req' = [req EXCEPT
                          ![p].beer_id = MaxId(Ids(View(r).beers, "beer_id")) + 1,
                          ![p].pc = "insert_beer"]
    /\ UNCHANGED <<call_vars, probe, db>>

\* INSERT INTO beers (brewery_id, beer_id, beer_name, ...)
InsertBeer(p) ==
    /\ req[p].pc = "insert_beer"
    /\ ~Locked(p, "beers", "beer_id", req[p].beer_id)
    /\ ~Duplicate("beers", "beer_id", req[p].beer_id)
    /\ req' = [req EXCEPT
                  ![p].inserted.beers =
                      Append(@, [brewery_id |-> req[p].brewery_id,
                                 beer_id |-> req[p].beer_id,
                                 beer_name |-> req[p].data.beer_name]),
                  ![p].pc = "report"]
    /\ UNCHANGED <<call_vars, probe, db>>

\* except Exception: conn.rollback() and 500
DuplicateBeer(p) ==
    /\ req[p].pc = "insert_beer"
    /\ ~Locked(p, "beers", "beer_id", req[p].beer_id)
    /\ Duplicate("beers", "beer_id", req[p].beer_id)
    /\ req' = [req EXCEPT ![p] = Respond(@, 500)]
    /\ UNCHANGED <<call_vars, probe, db>>

\* STEP 3: SELECT report_id FROM venue_beers WHERE venue_id = %s AND
\* beer_id = %s AND format = %s
SelectReport(p) ==
    /\ req[p].pc = "report"
    /\ LET r == req[p]
           existing_reports ==
               SelectSeq(View(r).venue_beers,
                         LAMBDA v : /\ v.venue_id = r.data.venue_id
                                    /\ v.beer_id = r.beer_id
                                    /\ v.format = r.data.format)
       IN IF existing_reports # <<>>
          THEN \E i \in DOMAIN existing_reports :
                   req' = [req EXCEPT ![p].report_id = existing_reports[i].report_id,
                                      ![p].pc = "update_report"]
          ELSE req' = [req EXCEPT ![p].pc = "insert_report"]
    /\ UNCHANGED <<call_vars, probe, db>>

\* UPDATE venue_beers SET last_seen = CURRENT_DATE, user_id = %s
UpdateReport(p) ==
    /\ req[p].pc = "update_report"
    /\ req' = [req EXCEPT ![p].updated = @ \cup {req[p].report_id},
                          ![p].pc = "commit"]
    /\ UNCHANGED <<call_vars, probe, db>>

\* INSERT INTO venue_beers ...; report_id = cursor.lastrowid: generated ids
\* are handed out outside the transaction
InsertReport(p) ==
    /\ req[p].pc = "insert_report"
    /\ db' = [db EXCEPT !.last_report_id = @ + 1]
    /\ req' = [req EXCEPT
                  ![p].report_id = db.last_report_id + 1,
                  ![p].inserted.venue_beers =
                      Append(@, [report_id |-> db.last_report_id + 1,
                                 venue_id |-> req[p].data.venue_id,
                                 beer_id |-> req[p].beer_id,
                                 format |-> req[p].data.format,
                                 user_id |-> req[p].data.user_id]),
                  ![p].pc = "commit"]
    /\ UNCHANGED <<call_vars, probe>>

\* the committed reports after the UPDATEs of a transaction
Reported(rows, updated, user_id) ==
    [i \in DOMAIN rows |->
        IF rows[i].report_id \in updated
        THEN [rows[i] EXCEPT !.user_id = user_id]
        ELSE rows[i]]

\* conn.commit(); update_user_stats writes nothing; 200 with the ids
CommitReport(p) ==
    /\ req[p].pc = "commit"
    /\ db' = [db EXCEPT
                 !.breweries = @ \o req[p].inserted.breweries,
                 !.beers = @ \o req[p].inserted.beers,
                 !.venue_beers =
                     Reported(@, req[p].updated, req[p].data.user_id)
                         \o req[p].inserted.venue_beers]
    /\ req' = [req EXCEPT ![p] = Respond(@, 200)]
    /\ UNCHANGED <<call_vars, probe>>

\* two requests at a time, under either schema
InitReport ==
    /\ clients = Procs
    /\ InitStore
    /\ InitCalls
    /\ \E keyed \in BOOLEAN : db = InitDb(keyed)

NextReport ==
    \E p \in Procs :
        \/ ReceiveReport(p)
        \/ NoUserId(p)
        \/ MissingFields(p)
        \/ VerifyUser(p)
        \/ SelectBrewery(p)
        \/ InsertBrewery(p)
        \/ DuplicateBrewery(p)
        \/ SelectBeer(p)
        \/ InsertBeer(p)
        \/ DuplicateBeer(p)
        \/ SelectReport(p)
        \/ UpdateReport(p)
        \/ InsertReport(p)
        \/ CommitReport(p)

SpecReport == InitReport /\ [][NextReport]_vars

(***************************************************************************)
(* Properties                                                              *)
(***************************************************************************)
\* the validation result of the call is available
Validated(p) == pc[p] \notin {"idle", "validate"}

\* the call is past step 2
PastStore(p) == pc[p] \in {"action", "insert_update", "commit", "done"}

\* the rows of table submissions inserted since the call started
NewSubmissions(p) ==
    SubSeq(submissions, Len(hist[p].submissions) + 1, Len(submissions))

\* the row the call has to leave in table submissions
AuditRow(p) ==
    [submission_id |-> submission_id[p],
     validation_tier |-> validation_result[p].tier,
     validation_status |-> validation_result[p].status]

BothExisting(v) ==
    v.pub_data.status = "existing" /\ v.beer_data.status = "existing"

PubStatuses == {"existing", "similar", "new"}

BeerStatuses == {"existing", "new_beer_existing_brewery", "new_brewery", "incomplete"}

\* C1. Tier 1 exclusivity: for every pair of a pub status and a beer status,
\* the tier decision is tier 1 (status auto_approved, action update_database)
\* if and only if both statuses are existing.
C1_TierOneExclusive ==
    \A p \in Procs :
        (Validated(p) /\ validation_result[p].status # "error") =>
            /\ validation_result[p].pub_data.status \in PubStatuses
            /\ validation_result[p].beer_data.status \in BeerStatuses
            /\ (validation_result[p].tier = 1) <=> BothExisting(validation_result[p])
            /\ (validation_result[p].status = "auto_approved")
                   <=> BothExisting(validation_result[p])
            /\ (validation_result[p].action = "update_database")
                   <=> BothExisting(validation_result[p])

C1_Witness ==
    \E p \in Procs :
        /\ pc[p] = "store"
        /\ validation_result[p].tier = 1
        /\ BothExisting(validation_result[p])

\* C2. Tier totality: each of the 12 combinations of pub status and beer
\* status is decided, and its tier is one of 1, 2, 3.
C2_TierTotal ==
    /\ {<<ps.status, bs.status>> : ps \in PubResults, bs \in BeerResults}
           = PubStatuses \X BeerStatuses
    /\ \A ps \in PubResults, bs \in BeerResults :
           DetermineValidationTier(ps, bs).tier \in {1, 2, 3}
    /\ \A p \in Procs :
           (Validated(p) /\ validation_result[p].status # "error") =>
               /\ validation_result[p].tier \in {1, 2, 3}
               /\ validation_result[p].action \in DispatchedActions

C2_Witness ==
    \E p \in Procs :
        /\ pc[p] = "store"
        /\ validation_result[p].pub_data.status = "similar"
        /\ validation_result[p].beer_data.status = "existing"
        /\ validation_result[p].tier = 3

\* a step of validate_submission raises on this input whatever the server does
StepRaises(submission) ==
    \/ ExtractPubData(submission).raised
    \/ ExtractBeerData(submission).raised
    \/ ValidateBeer(ExtractBeerData(submission).value).raised

\* C3. Fail-closed validation: whenever a step of validate_submission raises
\* (connection failure, failed lookup, normalisation error), the result is
\* tier 3 with status error, never tier 1 or 2, and the exception does not
\* reach the caller.
C3_FailClosed ==
    \A p \in Procs :
        /\ ~Happened(p, "validation_propagated")
        /\ (Validated(p) /\ (\/ StepRaises(submission_data[p])
                             \/ Happened(p, "validation_db_failed")
                             \/ Happened(p, "validation_raised"))) =>
               /\ validation_result[p].tier = 3
               /\ validation_result[p].status = "error"
               /\ Happened(p, "validation_raised")

C3_Witness ==
    \E p \in Procs :
        /\ pc[p] = "store"
        /\ ExtractPubData(submission_data[p]).raised
        /\ ~Happened(p, "validation_db_failed")
        /\ validation_result[p] = ErrorResult

\* C4. A validation failure never blocks recording: when validation raised,
\* the Submission insert is still attempted, and once it has succeeded the
\* call has inserted exactly one Submission record (tier 3, status error)
\* and written no venue format flag and no availability record.
C4_ErrorStillRecorded ==
    \A p \in Procs :
        Happened(p, "validation_raised") =>
            /\ pc[p] = "done" => (Happened(p, "stored") \/ Happened(p, "store_failed"))
            /\ (PastStore(p) /\ ~Happened(p, "store_failed")) =>
                   /\ NewSubmissions(p) =
                          <<[submission_id |-> submission_id[p],
                             validation_tier |-> 3, validation_status |-> "error"]>>
                   /\ submission_id[p] = Len(submissions)
            /\ pub_flags = hist[p].pub_flags
            /\ pubs_updates = hist[p].pubs_updates
            /\ tx[p] = NoTx

C4_Witness ==
    \E p \in Procs :
        /\ pc[p] = "done"
        /\ Happened(p, "validation_raised")
        /\ result[p].success
        /\ Len(submissions) = Len(hist[p].submissions) + 1

\* the queue entries of a submission
QueueEntries(id) ==
    SelectSeq(validation_queue, LAMBDA q : q.submission_id = id)

\* C5. Every successfully processed tier-2 or tier-3 submission is queued:
\* when process_submission returns success with tier 2 or 3 (the tier 3 of a
\* validation error included), exactly one pending queue entry exists for
\* the returned submission_id, soft_validation for tier 2 and manual_review
\* for tier 3.
C5_SuccessfulIsQueued ==
    \A p \in Procs :
        (pc[p] = "done" /\ result[p].success /\ validation_result[p].tier \in {2, 3}) =>
            /\ Len(QueueEntries(result[p].submission_id)) = 1
            /\ QueueEntries(result[p].submission_id)[1].status = "pending"
            /\ QueueEntries(result[p].submission_id)[1].validation_type =
                   (IF validation_result[p].tier = 2 THEN "soft_validation"
                    ELSE "manual_review")

\* C6. Audit-always: every call whose store step completes has produced
\* exactly one Submission record, whichever tier was assigned, and the
\* record carries the tier and status of the validation result returned.
C6_AuditAlways ==
    \A p \in Procs :
        (PastStore(p) /\ ~Happened(p, "store_failed")) =>
            /\ Happened(p, "stored")
            /\ NewSubmissions(p) = <<AuditRow(p)>>
            /\ validation_result[p].tier \in {1, 2, 3}
            /\ result[p].success => result[p].submission_id = submission_id[p]

C6_Witness ==
    \E p \in Procs :
        /\ pc[p] = "done"
        /\ result[p].success
        /\ validation_result[p].tier = 1
        /\ NewSubmissions(p) = <<AuditRow(p)>>

\* the committed store is what it was when the call started
StoreUntouched(p) ==
    /\ submissions = hist[p].submissions
    /\ validation_queue = hist[p].validation_queue
    /\ pub_flags = hist[p].pub_flags
    /\ pubs_updates = hist[p].pubs_updates

\* C7. If the Submission insert fails, process_submission returns success
\* false and does nothing else: no Submission row, no queue entry, no venue
\* format flag and no availability record come from the call.
C7_StoreFailureStops ==
    \A p \in Procs :
        Happened(p, "store_failed") =>
            /\ pc[p] = "done"
            /\ result[p].returned
            /\ ~result[p].success
            /\ StoreUntouched(p)
            /\ tx[p] = NoTx

C7_Witness ==
    \E p \in Procs :
        /\ Happened(p, "store_failed")
        /\ validation_result[p].tier = 1
        /\ pc[p] = "done"

\* C8. If the tier-specific action fails after the Submission insert
\* succeeded, process_submission returns success false, the Submission record
\* of the call stays, and nothing of an approval persists: no availability
\* record and no venue format flag written by the call.
C8_ActionFailureKeepsAudit ==
    \A p \in Procs :
        Happened(p, "action_failed") =>
            /\ pc[p] = "done"
            /\ result[p].returned
            /\ ~result[p].success
            /\ NewSubmissions(p) = <<AuditRow(p)>>
            /\ pub_flags = hist[p].pub_flags
            /\ pubs_updates = hist[p].pubs_updates
            /\ validation_queue = hist[p].validation_queue

C8_Witness ==
    \E p \in Procs :
        /\ Happened(p, "failed_at_commit")
        /\ validation_result[p].tier = 1
        /\ submission_data[p].beer_format.v \in FlagColumns
        /\ NewSubmissions(p) = <<AuditRow(p)>>

\* C9. Tier-1 atomicity: in every reachable state, also after a failure
\* between the two writes of _update_database_immediately, a venue's format
\* flag and an availability record of that venue and format are committed
\* together or not at all.
C9_FlagAndRecordTogether ==
    \A v \in PubIds, c \in FlagColumns :
        (c \in pub_flags[v]) <=>
            (\E i \in DOMAIN pubs_updates :
                 pubs_updates[i].pub_id = v /\ pubs_updates[i].beer_format = c)

C9_Witness ==
    /\ \E v \in PubIds : pub_flags[v] # {}
    /\ \E p \in Procs :
           /\ Happened(p, "failed_at_insert_update")
           /\ submission_data[p].beer_format.v \in FlagColumns

\* the submission names an existing venue by pub_id and a known beer by a
\* complete, case-insensitively equal (brewery, beer_name) pair
TierOneInput(submission) ==
    /\ submission.pub_id \in PubIds
    /\ ~ExtractPubData(submission).raised
    /\ ~ExtractBeerData(submission).raised
    /\ ExtractBeerData(submission).value.brewery # <<>>
    /\ ExtractBeerData(submission).value.beer_name # <<>>
    /\ BeersByBreweryName(ExtractBeerData(submission).value.brewery,
                          ExtractBeerData(submission).value.beer_name) # <<>>

\* C10. End-to-end tier-1 path: such a submission is classified tier 1
\* auto_approved, and after a successful process_submission the store holds
\* an availability record for the matched venue, the matched beer and the
\* submitted format, and the venue is marked as offering the format.
C10_EndToEndTierOne ==
    \A p \in Procs :
        (/\ Validated(p)
         /\ TierOneInput(submission_data[p])
         /\ ~Happened(p, "validation_db_failed")) =>
            /\ validation_result[p].tier = 1
            /\ validation_result[p].status = "auto_approved"
            /\ (pc[p] = "done" /\ result[p].success) =>
                   /\ \E i \in DOMAIN pubs_updates :
                          /\ pubs_updates[i].pub_id = submission_data[p].pub_id
                          /\ pubs_updates[i].beer_id = validation_result[p].beer_data.beer_id
                          /\ pubs_updates[i].beer_format =
                                 ExtractBeerData(submission_data[p]).value.format
                   /\ ExtractBeerData(submission_data[p]).value.format
                          \in pub_flags[submission_data[p].pub_id]

\* the (venue, beer, format) triple a tier-1 call reports
ReportKey(p) ==
    [pub_id |-> validation_result[p].pub_data.pub_id,
     beer_id |-> validation_result[p].beer_data.beer_id,
     beer_format |-> submission_data[p].beer_format.v]

\* the availability records of a triple
RecordsOf(rows, key) == SelectSeq(rows, LAMBDA r : SameKey(r, key))

\* C11. Idempotent availability reporting: after a tier-1 report has been
\* processed there is exactly one availability record of its (venue, beer,
\* format) triple, carrying the time of this processing; processing a
\* triple that was already recorded adds no row and moves the record's
\* time to the time of the second processing.
C11_IdempotentReport ==
    \A p \in Procs :
        (pc[p] = "done" /\ Happened(p, "applied")) =>
            /\ Len(RecordsOf(pubs_updates, ReportKey(p))) = 1
            /\ RecordsOf(pubs_updates, ReportKey(p))[1].update_time = now
            /\ RecordsOf(hist[p].pubs_updates, ReportKey(p)) # <<>> =>
                   Len(pubs_updates) = Len(hist[p].pubs_updates)

\* the second processing of the same triple, at a later time
C11_Witness ==
    \E p \in Procs :
        /\ pc[p] = "done"
        /\ Happened(p, "applied")
        /\ Len(RecordsOf(hist[p].pubs_updates, ReportKey(p))) = 1
        /\ RecordsOf(hist[p].pubs_updates, ReportKey(p))[1].update_time < now
        /\ Len(pubs_updates) = 1
        /\ pubs_updates[1].update_time = now

\* both calls have returned from the tier-1 action
BothApplied(p, q) ==
    /\ p # q
    /\ pc[p] = "done" /\ Happened(p, "applied")
    /\ pc[q] = "done" /\ Happened(q, "applied")

\* C12. Concurrent duplicate tier-1 reports: whatever the interleaving of
\* two tier-1 process_submission calls for the same (venue, beer, format),
\* once both have completed there is exactly one availability record of
\* the triple, and each call has left a Submission record of its own.
C12_ConcurrentDuplicate ==
    \A p, q \in Procs :
        (BothApplied(p, q) /\ ReportKey(p) = ReportKey(q)) =>
            /\ Len(RecordsOf(pubs_updates, ReportKey(p))) = 1
            /\ submission_id[p] # submission_id[q]
            /\ \A r \in {p, q} :
                   /\ submission_id[r] \in DOMAIN submissions
                   /\ submissions[submission_id[r]] = AuditRow(r)
                   /\ result[r].success

\* both calls started before either had written anything
C12_Witness ==
    /\ BothApplied(1, 2)
    /\ ReportKey(1) = ReportKey(2)
    /\ hist[1].submissions = <<>> /\ hist[2].submissions = <<>>
    /\ hist[1].pubs_updates = <<>> /\ hist[2].pubs_updates = <<>>
    /\ Len(pubs_updates) = 1
    /\ Len(submissions) = 2

\* the rows of table validation_queue inserted since the call started
NewQueueEntries(p) ==
    SubSeq(validation_queue, Len(hist[p].validation_queue) + 1, Len(validation_queue))

\* C13. Tier-2 path: a successful call whose action is queue_soft_validation
\* has inserted exactly one queue entry, of type soft_validation, status
\* pending, for the submission id it returns, scheduled 24 hours after the
\* time of processing, and has changed no venue format flag and no
\* availability record.
C13_TierTwoQueuesOnly ==
    \A p \in Procs :
        (/\ pc[p] = "done"
         /\ result[p].success
         /\ validation_result[p].action = "queue_soft_validation") =>
            /\ NewQueueEntries(p) =
                   <<[submission_id |-> result[p].submission_id,
                      validation_type |-> "soft_validation",
                      scheduled_approval_time |-> now + 24,
                      review_reasons |-> <<>>,
                      status |-> "pending"]>>
            /\ NewSubmissions(p) = <<AuditRow(p)>>
            /\ result[p].submission_id = Len(submissions)
            /\ pub_flags = hist[p].pub_flags
            /\ pubs_updates = hist[p].pubs_updates
            /\ tx[p] = NoTx

\* a tier-2 call after a tier-1 call has written a flag and a record
C13_Witness ==
    \E p \in Procs :
        /\ pc[p] = "done"
        /\ result[p].success
        /\ validation_result[p].tier = 2
        /\ Len(NewQueueEntries(p)) = 1
        /\ pubs_updates # <<>>
        /\ now > 0

\* C14. Tier-3 path: a successful call whose action is queue_manual_review
\* has inserted exactly one queue entry, of type manual_review, status
\* pending, for the submission id it returns, whose reasons string is the
\* comma-join of the reasons of the tier decision, and has written no venue
\* format flag and no availability record.
C14_TierThreeQueuesReasons ==
    \A p \in Procs :
        (/\ pc[p] = "done"
         /\ result[p].success
         /\ validation_result[p].action = "queue_manual_review") =>
            /\ Len(NewQueueEntries(p)) = 1
            /\ NewQueueEntries(p)[1].submission_id = result[p].submission_id
            /\ NewQueueEntries(p)[1].validation_type = "manual_review"
            /\ NewQueueEntries(p)[1].status = "pending"
            /\ NewQueueEntries(p)[1].review_reasons \in
                   {<<r>> : r \in {"new pub", "similar pub found - possible duplicate",
                                   "new brewery", "incomplete beer information"}}
                   \cup {<<r, ",", b>> :
                            r \in {"new pub", "similar pub found - possible duplicate"},
                            b \in {"new brewery", "incomplete beer information"}}
            /\ NewQueueEntries(p)[1].review_reasons =
                   JoinComma(Reasons(validation_result[p].pub_data,
                                     validation_result[p].beer_data))
            /\ result[p].submission_id = Len(submissions)
            /\ pub_flags = hist[p].pub_flags
            /\ pubs_updates = hist[p].pubs_updates
            /\ tx[p] = NoTx

\* a tier-3 call with two reasons
C14_Witness ==
    \E p \in Procs :
        /\ pc[p] = "done"
        /\ result[p].success
        /\ validation_result[p].tier = 3
        /\ Len(validation_result[p].reasons) = 2
        /\ Len(NewQueueEntries(p)) = 1
        /\ Len(NewQueueEntries(p)[1].review_reasons) = 3

\* C15. No internal detail leaks on failure: every failure result of
\* process_submission carries the generic error message only; no field of
\* it holds the text of the underlying exception.
C15_NoDetailLeak ==
    \A p \in Procs :
        (result[p].returned /\ ~result[p].success) =>
            /\ result[p].error = "Failed to process submission"
            /\ result[p].details = ""

\* the pub is known and the beer is a new one of a known brewery
TierTwoCase(v) ==
    /\ v.pub_data.status = "existing"
    /\ v.beer_data.status = "new_beer_existing_brewery"

\* C16. Tier 2 rule: the tier decision is tier 2 (status soft_validation,
\* action queue_soft_validation, delay_hours 24) if and only if the pub
\* status is existing and the beer status is new_beer_existing_brewery; a
\* combination that is neither tier 1 nor tier 2 is tier 3 with action
\* queue_manual_review.
C16_TierTwoRule ==
    \A p \in Procs :
        (Validated(p) /\ validation_result[p].status # "error") =>
            /\ (validation_result[p].tier = 2) <=> TierTwoCase(validation_result[p])
            /\ (validation_result[p].status = "soft_validation")
                   <=> TierTwoCase(validation_result[p])
            /\ (validation_result[p].action = "queue_soft_validation")
                   <=> TierTwoCase(validation_result[p])
            /\ TierTwoCase(validation_result[p]) => validation_result[p].delay_hours = 24
            /\ (~TierTwoCase(validation_result[p]) /\ ~BothExisting(validation_result[p])) =>
                   /\ validation_result[p].tier = 3
                   /\ validation_result[p].action = "queue_manual_review"

C16_Witness ==
    \E p \in Procs :
        /\ pc[p] = "store"
        /\ validation_result[p].tier = 2
        /\ TierTwoCase(validation_result[p])
        /\ validation_result[p].delay_hours = 24

\* the entries of a list
Entries(list) == {list[i] : i \in DOMAIN list}

PubReasons == {"new pub", "similar pub found - possible duplicate"}

BeerReasons == {"new brewery", "incomplete beer information"}

\* C19. Tier-3 reasons are exact and complete: for every tier-3 combination
\* the reasons hold 'new pub' iff the pub status is new, 'similar pub found -
\* possible duplicate' iff it is similar, 'new brewery' iff the beer status
\* is new_brewery, 'incomplete beer information' iff it is incomplete, and
\* nothing else, the pub reason before the beer reason; the list is never
\* empty and each of its entries appears in the message.
C19_ReasonsExact ==
    \A p \in Procs :
        (/\ Validated(p)
         /\ validation_result[p].tier = 3
         /\ validation_result[p].status # "error") =>
            LET reasons == validation_result[p].reasons
                pub == validation_result[p].pub_data.status
                beer == validation_result[p].beer_data.status
            IN /\ ("new pub" \in Entries(reasons)) <=> (pub = "new")
               /\ ("similar pub found - possible duplicate" \in Entries(reasons))
                      <=> (pub = "similar")
               /\ ("new brewery" \in Entries(reasons)) <=> (beer = "new_brewery")
               /\ ("incomplete beer information" \in Entries(reasons))
                      <=> (beer = "incomplete")
               /\ Entries(reasons) \subseteq PubReasons \cup BeerReasons
               /\ Len(reasons) \in {1, 2}
               /\ Len(reasons) = 2 => (reasons[1] \in PubReasons /\ reasons[2] \in BeerReasons)
               /\ Entries(reasons) \subseteq Entries(validation_result[p].message)
               /\ validation_result[p].message[1] = "Manual review needed: "

\* a new pub with a beer of a new brewery: two reasons, in this order
C19_Witness ==
    \E p \in Procs :
        /\ pc[p] = "store"
        /\ validation_result[p].tier = 3
        /\ validation_result[p].reasons = <<"new pub", "new brewery">>
        /\ validation_result[p].message =
               <<"Manual review needed: ", "new pub", ", ", "new brewery">>

\* C17. Determinism of matching: on a fixed state of the tables and a fixed
\* descriptor, two calls of _validate_pub return the same status and
\* confidence, and so do two calls of _validate_beer, also when several
\* venues have the name and postcode or when more venues share the postcode
\* area than the candidate query returns.
C17_MatchDeterministic ==
    /\ probe.op = "validate_pub" =>
           /\ probe.out[1].status = probe.out[2].status
           /\ probe.out[1].confidence = probe.out[2].confidence
    /\ probe.op = "validate_beer" =>
           /\ probe.out[1].raised = probe.out[2].raised
           /\ probe.out[1].value.status = probe.out[2].value.status
           /\ probe.out[1].value.confidence = probe.out[2].value.confidence

\* what the normaliser has to make of a raw field
Cleaned(f) == IF f.k = "str" THEN Strip(f.v) ELSE <<>>

\* C18. Normaliser totality: for every raw submission whose fields are
\* absent, null, empty or strings, _extract_pub_data and _extract_beer_data
\* return descriptors without raising; an absent or a null field gives the
\* empty string as an empty field does, the postcode is trimmed and
\* uppercased, the format trimmed and lowercased, abv passed through.
C18_NormaliserTotal ==
    probe.op = "extract" =>
        /\ ~probe.out[1].raised
        /\ ~probe.out[2].raised
        /\ probe.out[1].value.name = Cleaned(probe.arg.pub_name)
        /\ probe.out[1].value.postcode = Upper(Cleaned(probe.arg.postcode))
        /\ probe.out[2].value.brewery = Cleaned(probe.arg.brewery)
        /\ probe.out[2].value.format = Lower(Cleaned(probe.arg.beer_format))
        /\ probe.out[2].value.abv = probe.arg.beer_abv

\* the ids of the venues of a table
IdsOf(pubs) == {pubs[i].pub_id : i \in DOMAIN pubs}

\* C20. Identity lookup has top priority in _validate_pub: whenever the
\* descriptor's pub_id is that of a stored venue, the result is status
\* existing with confidence 1.0 and that venue's id and name, whatever the
\* submitted name and postcode are, also when they are those of another
\* venue or resemble others.
C20_IdentityFirst ==
    (/\ probe.op = "validate_pub"
     /\ probe.arg.pub_id \in IdsOf(PubTable(probe.table))) =>
        \A i \in {1, 2} :
            /\ probe.out[i].status = "existing"
            /\ probe.out[i].confidence = <<1, 1>>
            /\ probe.out[i].pub_id = probe.arg.pub_id
            /\ \E j \in DOMAIN PubTable(probe.table) :
                   /\ PubTable(probe.table)[j].pub_id = probe.arg.pub_id
                   /\ PubTable(probe.table)[j].name = probe.out[i].matched_name

\* pub_id of the Crown with the name and postcode of the Bell
C20_Witness ==
    /\ probe.op = "validate_pub"
    /\ probe.table = "listed"
    /\ probe.arg.pub_id = 1
    /\ probe.arg.name = <<"b","e","l","l">>
    /\ probe.arg.postcode = S_S12AB
    /\ probe.out[1].pub_id = 1
    /\ probe.out[1].matched_name = S_Crown

\* the venues with a case-insensitively equal name and an equal postcode
ExactVenues(pubs, pub_data) ==
    {pubs[i].pub_id : i \in {j \in DOMAIN pubs :
                               /\ Lower(pubs[j].name) = Lower(pub_data.name)
                               /\ pubs[j].postcode = pub_data.postcode}}

\* C21. Exact match beats fuzzy match in _validate_pub: when pub_id is
\* absent or identifies no venue, name and postcode are both non-empty and
\* some venue has a case-insensitively equal name and an equal postcode, the
\* result is status existing with confidence 1.0 and the id of such a venue,
\* never similar or new.
C21_ExactBeatsFuzzy ==
    (/\ probe.op = "validate_pub"
     /\ probe.arg.pub_id \notin IdsOf(PubTable(probe.table))
     /\ probe.arg.name # <<>>
     /\ probe.arg.postcode # <<>>
     /\ ExactVenues(PubTable(probe.table), probe.arg) # {}) =>
        \A i \in {1, 2} :
            /\ probe.out[i].status = "existing"
            /\ probe.out[i].confidence = <<1, 1>>
            /\ probe.out[i].pub_id \in ExactVenues(PubTable(probe.table), probe.arg)

\* an unknown pub_id, the Bell's name in lower case and its postcode
C21_Witness ==
    /\ probe.op = "validate_pub"
    /\ probe.table = "listed"
    /\ probe.arg.pub_id = 9
    /\ probe.arg.name = <<"b","e","l","l">>
    /\ probe.arg.postcode = S_S12AB
    /\ probe.out[1].status = "existing"
    /\ probe.out[1].pub_id = 2

\* the confidence of a candidate row for a descriptor
ScoreOf(pub_data, row) ==
    Confidence(Ratio(Lower(pub_data.name), Lower(row.name)),
               Ratio(pub_data.postcode, row.postcode))

\* the candidates of the pool whose confidence is above 0.8
Qualifying(pub_data, pool) ==
    {i \in DOMAIN pool :
        10 * ScoreOf(pub_data, pool[i])[1] > 8 * ScoreOf(pub_data, pool[i])[2]}

MinOf(a, b) == IF a < b THEN a ELSE b

C24_PrefixFilter ==
    probe.op = "find_similar_pubs" =>
        \A j \in DOMAIN probe.out[2] :
            StartsWith(probe.out[2][j].postcode, Prefix(probe.arg.postcode, 3))

\* C25. _validate_beer returns status incomplete whenever the brewery or
\* the beer_name of the descriptor is empty, and then issues no lookup
\* against the beer data.
C25_IncompleteNoLookup ==
    (/\ probe.op = "validate_beer"
     /\ probe.arg.brewery = <<>> \/ probe.arg.beer_name = <<>>) =>
        \A i \in {1, 2} :
            /\ ~probe.out[i].raised
            /\ probe.out[i].value.status = "incomplete"
            /\ probe.out[i].lookups = 0

\* a known brewery without a beer name
C25_Witness ==
    /\ probe.op = "validate_beer"
    /\ probe.arg.brewery = S_Thorn
    /\ probe.arg.beer_name = <<>>
    /\ probe.out[1].value.status = "incomplete"
    /\ probe.out[1].lookups = 0

\* the stored beers with a case-insensitively equal brewery
BeersOfBrewery(brewery) ==
    {i \in DOMAIN Beers : Lower(Beers[i].brewery) = Lower(brewery)}

\* ... and a case-insensitively equal name
BeersNamed(brewery, name) ==
    {i \in BeersOfBrewery(brewery) : Lower(Beers[i].name) = Lower(name)}

\* C26. Beer classification for a non-empty brewery and beer_name:
\* _validate_beer returns existing (confidence 1.0, the matched beer's id)
\* iff a stored beer has a case-insensitively equal brewery and name;
\* otherwise new_beer_existing_brewery (confidence 0.7, the stored brewery
\* name) iff a stored beer has a case-insensitively equal brewery; otherwise
\* new_brewery (confidence 0.0).
C26_BeerClassification ==
    (/\ probe.op = "validate_beer"
     /\ probe.arg.brewery # <<>>
     /\ probe.arg.beer_name # <<>>) =>
        \A i \in {1, 2} :
            LET r == probe.out[i].value
                named == BeersNamed(probe.arg.brewery, probe.arg.beer_name)
                brewed == BeersOfBrewery(probe.arg.brewery)
            IN /\ ~probe.out[i].raised
               /\ named # {} =>
                      /\ r.status = "existing"
                      /\ r.confidence = <<1, 1>>
                      /\ r.beer_id \in {Beers[k].beer_id : k \in named}
               /\ (named = {} /\ brewed # {}) =>
                      /\ r.status = "new_beer_existing_brewery"
                      /\ r.confidence = <<7, 10>>
                      /\ r.matched_brewery \in {Beers[k].brewery : k \in brewed}
               /\ brewed = {} =>
                      /\ r.status = "new_brewery"
                      /\ r.confidence = <<0, 1>>

\* the format _extract_beer_data computes from the submitted one
Canonical(p) == Lower(Strip(submission_data[p].beer_format.v))

\* C27. The tier-1 write uses the canonical format: after the tier-1 action
\* of a submission whose beer_format is bottle, tap, cask or can up to
\* letter case and surrounding whitespace has been applied, the venue's flag
\* of that canonical format is set and an availability record of the venue
\* and the beer carries the trimmed, lowercased format.
C27_CanonicalFormat ==
    \A p \in Procs :
        (/\ pc[p] = "done"
         /\ Happened(p, "applied")
         /\ submission_data[p].beer_format.k = "str"
         /\ Canonical(p) \in FlagColumns) =>
            /\ Canonical(p) \in pub_flags[validation_result[p].pub_data.pub_id]
            /\ \E i \in DOMAIN pubs_updates :
                   /\ pubs_updates[i].pub_id = validation_result[p].pub_data.pub_id
                   /\ pubs_updates[i].beer_id = validation_result[p].beer_data.beer_id
                   /\ pubs_updates[i].beer_format = Canonical(p)

\* the brewery rows of a name, case-insensitively
BreweriesNamed(rows, name) ==
    SelectSeq(rows, LAMBDA b : Lower(b.brewery_name) = Lower(name))

\* two requests that passed the checks of the handler and name the same
\* brewery, which no row of breweries had before them, have been answered
SameNewBrewery(p, q) ==
    /\ p # q
    /\ req[p].pc = "done" /\ req[q].pc = "done"
    /\ req[p].data.user_id \in Users /\ req[q].data.user_id \in Users
    /\ Complete(req[p].data) /\ Complete(req[q].data)
    /\ Lower(req[p].data.brewery_name) = Lower(req[q].data.brewery_name)
    /\ BreweriesNamed(Breweries, req[p].data.brewery_name) = <<>>

\* C28. Duplicate-brewery race is benign: under any interleaving of two
\* submit_beer_update requests that name the same previously unknown
\* brewery (case-insensitively), both are answered with success, exactly
\* one brewery row with that name exists afterwards, and both responses
\* carry its brewery_id.
C28_BenignBreweryRace ==
    \A p, q \in Procs :
        SameNewBrewery(p, q) =>
            /\ req[p].response.code = 200
            /\ req[q].response.code = 200
            /\ Len(BreweriesNamed(db.breweries, req[p].data.brewery_name)) = 1
            /\ \A i \in DOMAIN db.breweries :
                   Lower(db.breweries[i].brewery_name) =
                       Lower(req[p].data.brewery_name) =>
                       /\ req[p].response.brewery_id = db.breweries[i].brewery_id
                       /\ req[q].response.brewery_id = db.breweries[i].brewery_id

\* every venue of the rows has a postcode
AllWithPostcode(rows) == \A i \in DOMAIN rows : rows[i].postcode # <<>>

\* C29. When the submitted postcode is empty, a candidate that has a
\* postcode scores at most 0.7 and is never among the similar matches,
\* whatever its name; over venues that all have a postcode, the fuzzy search
\* of a descriptor without postcode finds nothing and _validate_pub, unless
\* the identity lookup hits, returns new, also for a name equal to a
\* venue's.
C29_EmptyPostcodeIsNew ==
    /\ (probe.op = "find_similar_pubs" /\ probe.arg.postcode = <<>>) =>
           /\ \A i \in DOMAIN probe.out[1] :
                  probe.out[1][i].postcode # <<>> =>
                      10 * ScoreOf(probe.arg, probe.out[1][i])[1]
                          <= 7 * ScoreOf(probe.arg, probe.out[1][i])[2]
           /\ \A i \in DOMAIN probe.out[2] : probe.out[2][i].postcode = <<>>
           /\ AllWithPostcode(probe.out[1]) =>
                  /\ probe.out[2] = <<>>
                  /\ probe.out[3].status = "new"
    /\ (/\ probe.op = "validate_pub"
        /\ probe.arg.postcode = <<>>
        /\ probe.arg.pub_id \notin IdsOf(PubTable(probe.table))
        /\ AllWithPostcode(PubTable(probe.table))) =>
           /\ probe.out[1].status = "new"
           /\ probe.out[2].status = "new"

\* a descriptor without postcode named exactly as a venue of the pool
C29_Witness ==
    /\ probe.op = "find_similar_pubs"
    /\ probe.arg.postcode = <<>>
    /\ probe.arg.name = S_Crown
    /\ \E i \in DOMAIN probe.out[1] :
           /\ probe.out[1][i].name = S_Crown
           /\ probe.out[1][i].postcode = S_S12AB
    /\ probe.out[3].status = "new"

\* the queue entries that reference a submission id
EntriesOf(id) == SelectSeq(validation_queue, LAMBDA e : e.submission_id = id)

\* C30. Queue referential integrity: in every state reached by
\* process_submission calls, successful or failed, every validation_queue
\* row references the id of a stored submission, no submission has more
\* than one queue row, and no submission of tier 1 has one.
C30_QueueIntegrity ==
    /\ \A i \in DOMAIN validation_queue :
           \E j \in DOMAIN submissions :
               submissions[j].submission_id = validation_queue[i].submission_id
    /\ \A j \in DOMAIN submissions :
           /\ Len(EntriesOf(submissions[j].submission_id)) <= 1
           /\ submissions[j].validation_tier = 1 =>
                  EntriesOf(submissions[j].submission_id) = <<>>

\* a tier-1 submission without entry beside a queued one
C30_Witness ==
    /\ Len(submissions) = 2
    /\ submissions[1].validation_tier = 1
    /\ EntriesOf(submissions[1].submission_id) = <<>>
    /\ Len(EntriesOf(submissions[2].submission_id)) = 1
    /\ \E p \in Procs : pc[p] = "done" /\ Happened(p, "queued")
====
